---- MODULE Spec2Model ----
(***************************************************************************)
(* Model of the resource archival pipeline of ckanext-archiver             *)
(* (ckanext/archiver/tasks.py, ckanext/archiver/model.py).                 *)
(*                                                                         *)
(* The ledger (table "archival"), the blacklist table                      *)
(* (resource_domain_blacklist) and the position of the worker inside       *)
(* _update_resource are the state.  The catalog (resource_show), the       *)
(* remote servers and the local file store are the environment: every      *)
(* answer they give is an input drawn by \E from a small set.              *)
(***************************************************************************)
EXTENDS Integers, Sequences, FiniteSets, TLC

\* ------------------------------------------------------------------------
\* Bounds of the exploration
\* ------------------------------------------------------------------------
\* runs of _update_resource in one behaviour
MaxRuns == 3

\* inputs of one behaviour that are not the everyday ones (BasicResource,
\* BasicResponses, BasicApiResponses, no debug mode)
MaxUnusual == 1

\* ------------------------------------------------------------------------
\* Values
\* ------------------------------------------------------------------------
\* Python's None in a text column or a header value
None == "<None>"
\* Python's None in a DateTime column; the clock starts above it
NoTime == 0
\* Python's None (or any falsy value) in the errno column of the blacklist
NoErrno == 0

ResourceIds == {"r1", "r2"}

ALLOWED_SCHEMES == {"http", "https", "ftp"}

MAX_CONTENT_LENGTH == 1000000

CHUNK_SIZE == 500

SITE_HOST == "site"

Min(a, b) == IF a < b THEN a ELSE b

\* str.lower() on the scheme names the model uses
Lower(s) ==
    CASE s = "HTTP" -> "http"
      [] s = "FTP" -> "ftp"
      [] OTHER -> s

\* ------------------------------------------------------------------------
\* Status enumeration (model.py)
\* ------------------------------------------------------------------------
StatusById ==
    [i \in {0, 1, 10, 11, 12, 21, 22, 23} |->
        CASE i = 0 -> "Archived successfully"
          [] i = 1 -> "Content has not changed"
          [] i = 10 -> "URL invalid"
          [] i = 11 -> "URL request failed"
          [] i = 12 -> "Download error"
          [] i = 21 -> "Chose not to download"
          [] i = 22 -> "Download failure"
          [] i = 23 -> "System error during archival"]

by_text(status_txt) == CHOOSE i \in DOMAIN StatusById : StatusById[i] = status_txt

is_status_broken(status_id) ==
    IF status_id < 10 THEN "False"
    ELSE IF status_id < 20 THEN "True"
    ELSE "None"

is_ok(status_id) == status_id \in {0, 1}

\* ------------------------------------------------------------------------
\* URLs and resources, as the catalog hands them out
\* ------------------------------------------------------------------------
Url(scheme, host, path, query, ws, malformed) ==
    [scheme |-> scheme, host |-> host, path |-> path, query |-> query,
     ws |-> ws, malformed |-> malformed]

Urls ==
    { Url("http", "h1", <<"a", "b">>, "x=1", FALSE, FALSE),
      Url("HTTP", "h1", <<>>, "", TRUE, FALSE),
      Url("ftp", "h2", <<"f">>, "", FALSE, FALSE),
      Url("file", "", <<"home", "root", "test.txt">>, "", FALSE, FALSE),
      Url("", "", <<"www.example.com">>, "", FALSE, FALSE),
      Url("http", "", <<"host.com">>, "", FALSE, FALSE),
      Url("http", "h1", <<"a", "b">>, "x=1", FALSE, TRUE) }

UploadUrls ==
    { Url("http", SITE_HOST, <<"dataset", "file.csv">>, "", FALSE, FALSE),
      Url("http", SITE_HOST, <<"dataset", "file">>, "", FALSE, FALSE),
      Url("http", "cloud", <<"file.csv">>, "", FALSE, FALSE) }

\* The resource dicts resource_show may return
ResourceDicts ==
    { [id |-> "r1", url |-> u, url_type |-> None] : u \in Urls }
    \cup { [id |-> "r1", url |-> u, url_type |-> "upload"] : u \in UploadUrls }
    \cup { [id |-> "r2", url |-> Url("http", "h1", <<"a">>, "", FALSE, FALSE),
            url_type |-> None] }

BasicResource ==
    [id |-> "r1", url |-> Url("http", "h1", <<"a", "b">>, "x=1", FALSE, FALSE),
     url_type |-> None]

\* url.startswith('http')
StartsWithHttp(url) == ~url.ws /\ url.scheme \in {"http", "https"}

\* url.startswith(config['ckan.site_url'])
StartsWithSiteUrl(url) ==
    ~url.ws /\ url.scheme = "http" /\ url.host = SITE_HOST

\* ------------------------------------------------------------------------
\* URL validation (tidy_url)
\* ------------------------------------------------------------------------
MSG_PARSE == "URL parsing failure: %s"
MSG_SCHEME == "Invalid url scheme. Please use one of: http https ftp"
MSG_NOHOST == "URL parsing failure - did not find a host name"

\* tidy_url without the check of the scheme
tidy_url_NoSchemeCheck(url) ==
    LET stripped == [url EXCEPT !.ws = FALSE]
    IN  IF stripped.malformed
        THEN [ok |-> FALSE, url |-> stripped, msg |-> MSG_PARSE]
        ELSE IF stripped.host = ""
        THEN [ok |-> FALSE, url |-> stripped, msg |-> MSG_NOHOST]
        ELSE [ok |-> TRUE, url |-> stripped, msg |-> ""]

\* [ok, url, msg]: the tidied URL, or the message of the LinkInvalidError
tidy_url(url) ==
    LET stripped == [url EXCEPT !.ws = FALSE]
    IN  IF stripped.malformed
        THEN [ok |-> FALSE, url |-> stripped, msg |-> MSG_PARSE]
        ELSE IF stripped.scheme = "" \/ Lower(stripped.scheme) \notin ALLOWED_SCHEMES
        THEN [ok |-> FALSE, url |-> stripped, msg |-> MSG_SCHEME]
        ELSE IF stripped.host = ""
        THEN [ok |-> FALSE, url |-> stripped, msg |-> MSG_NOHOST]
        ELSE [ok |-> TRUE, url |-> stripped, msg |-> ""]

\* ------------------------------------------------------------------------
\* Blacklist table resource_domain_blacklist (RemoteResource)
\* A table is a function from the paths that have a row to [count, errno].
\* ------------------------------------------------------------------------
BLOCK_THRESHOLD == 5

\* RemoteResource.ERRNO_BLOCK: the errors not worth wasting time on
ERRNO_BLOCK == {101}

ERRNO_TIMEOUT == 100

Prefix(s, n) == [i \in 1..n |-> s[i]]

Reverse(s) == [i \in 1..Len(s) |-> s[Len(s) + 1 - i]]

\* The prefixes of a URL from scheme+host (coarsest) to the full path (finest).
\* A prefix is the tuple <<scheme, host, segment, ...>>.
get_url_paths(url) ==
    IF url.scheme = "" /\ url.host = ""
    THEN <<>>
    ELSE [k \in 1..(Len(url.path) + 1) |->
             <<Lower(url.scheme), url.host>> \o Prefix(url.path, k - 1)]

\* The errno of the first prefix (coarsest first) whose count reached the
\* threshold, NoErrno when there is none.
check_url_blacklist(bl, url) ==
    LET url_paths == get_url_paths(url)
        hits == {i \in 1..Len(url_paths) :
                    /\ url_paths[i] \in DOMAIN bl
                    /\ bl[url_paths[i]].count >= BLOCK_THRESHOLD}
    IN  IF hits = {} THEN NoErrno
        ELSE bl[url_paths[CHOOSE i \in hits : \A j \in hits : i <= j]].errno

\* Walks the prefixes finest first: a prefix that has a row gets count + 1 and
\* ends the walk; a prefix that has none gets a new row with count 1 and the
\* walk goes on to the next coarser prefix.
add_url_blacklist(bl, url, errno) ==
    LET url_paths == Reverse(get_url_paths(url))
        existing == {i \in 1..Len(url_paths) : url_paths[i] \in DOMAIN bl}
        stop == IF existing = {} THEN Len(url_paths) + 1
                ELSE CHOOSE i \in existing : \A j \in existing : i <= j
        inserted == {url_paths[i] : i \in 1..(stop - 1)}
    IN  [p \in DOMAIN bl \cup inserted |->
            IF p \in inserted THEN [count |-> 1, errno |-> errno]
            ELSE IF stop <= Len(url_paths) /\ p = url_paths[stop]
            THEN [bl[p] EXCEPT !.count = @ + 1]
            ELSE bl[p]]

\* delete_url_blacklist that deletes the row of the full path only
delete_url_blacklist_FullPathOnly(bl, url) ==
    LET url_paths == get_url_paths(url)
        gone == IF url_paths = <<>> THEN {} ELSE {url_paths[Len(url_paths)]}
    IN  [p \in DOMAIN bl \ gone |-> bl[p]]

\* Deletes the row of every prefix of the URL
delete_url_blacklist(bl, url) ==
    LET url_paths == get_url_paths(url)
        gone == {url_paths[i] : i \in 1..Len(url_paths)}
    IN  [p \in DOMAIN bl \ gone |-> bl[p]]

\* ------------------------------------------------------------------------
\* What the network answers to one request (the environment's input)
\* ------------------------------------------------------------------------
\* kind: "response" (the request returned a response object) or the class of
\*   the exception requests raised;
\* ssl23: the first attempt failed with the SSL23_GET_SERVER_HELLO connection
\*   error and the rest of the record is the outcome of the SSLv3 retry;
\* has_reason, errno: e.args[0].reason.errno of a ConnectionError;
\* clen: the Content-Length header split at commas, -1 a non-numeric value,
\*   HUGE digits whose value is above sys.maxint, <<>> no header;
\* body_len, api_error, body_exc: what reading the body yields.
\* A Content-Length whose digits give a value above sys.maxint: int() returns
\* a long for it
HUGE == -2

OkResponse ==
    [kind |-> "response", ssl23 |-> FALSE, has_reason |-> TRUE, errno |-> NoErrno,
     ok |-> TRUE, etag |-> None, last_modified |-> None,
     content_type |-> "text/csv", redirected |-> FALSE, clen |-> <<>>,
     body_len |-> 4, api_error |-> FALSE, body_exc |-> ""]

Failure(kind) == [OkResponse EXCEPT !.kind = kind]

Etags == {None, "e1", "e2"}

Responses ==
    { [OkResponse EXCEPT !.ok = o, !.etag = t] : o \in BOOLEAN, t \in Etags }
    \cup { [OkResponse EXCEPT !.ok = o, !.redirected = TRUE] : o \in BOOLEAN }
    \cup { [OkResponse EXCEPT !.clen = c] :
          c \in { <<MAX_CONTENT_LENGTH - 1>>, <<MAX_CONTENT_LENGTH>>, <<-1>>,
                  <<MAX_CONTENT_LENGTH, 4>>, <<-1, MAX_CONTENT_LENGTH>>,
                  <<HUGE>> } }
    \cup { [OkResponse EXCEPT !.body_len = n] : n \in {0, 1, MAX_CONTENT_LENGTH + 1} }
    \cup { [OkResponse EXCEPT !.api_error = TRUE],
           [OkResponse EXCEPT !.body_exc = "Timeout"],
           [OkResponse EXCEPT !.body_exc = "Timeout", !.clen = <<MAX_CONTENT_LENGTH>>],
           [OkResponse EXCEPT !.last_modified = "lm1", !.etag = "e1"],
           [OkResponse EXCEPT !.etag = "e1", !.body_len = 0],
           [OkResponse EXCEPT !.content_type = None],
           [OkResponse EXCEPT !.content_type = "text/csv; charset=utf-8"],
           [OkResponse EXCEPT !.ssl23 = TRUE] }
    \cup { [Failure("ConnectionError") EXCEPT !.errno = n] : n \in {101, 111, NoErrno} }
    \cup { [Failure("ConnectionError") EXCEPT !.has_reason = FALSE],
           [Failure("ConnectionError") EXCEPT !.errno = 101, !.ssl23 = TRUE] }
    \cup { Failure(k) : k \in {"HTTPError", "Timeout", "TooManyRedirects",
                               "RequestException", "Exception"} }

\* The everyday answers to the plain request and to an API request
BasicResponses ==
    { [OkResponse EXCEPT !.etag = "e1"], [OkResponse EXCEPT !.ok = FALSE],
      [Failure("ConnectionError") EXCEPT !.errno = 101] }

BasicApiResponses ==
    { [OkResponse EXCEPT !.ok = FALSE],
      [Failure("ConnectionError") EXCEPT !.errno = 101] }

\* ct[:ct.index(';')] when a charset is given; '' for a missing header
clean_content_type(ct) ==
    CASE ct = None -> ""
      [] ct = "text/csv; charset=utf-8" -> "text/csv"
      [] OTHER -> ct

\* The response headers that the pipeline reads; present = FALSE is headers = None
Headers(present, etag, last_modified) ==
    [present |-> present, etag |-> etag, last_modified |-> last_modified]

\* None where a dict of results is expected
NoResult ==
    [mimetype |-> None, size |-> 0, hash |-> None,
     headers |-> Headers(FALSE, None, None), saved_file |-> None,
     url_redirected_to |-> None, request_type |-> None]

REDIRECT_TARGET == "res.url"

REQUESTED_URL == "url"

\* int(content_length) with the fallback to the first of comma-joined values;
\* -1 when the header is absent, yields no integer, or yields a long, which
\* isinstance(content_length, int) does not accept
declared_length(clen) ==
    IF Len(clen) = 0 \/ clen[1] = HUGE THEN -1 ELSE clen[1]

\* ------------------------------------------------------------------------
\* requests_wrapper and download
\* ------------------------------------------------------------------------
MSG_CLOUD == "Skipping resource hosted externally to download resource: %s"
MSG_BLACKLISTED == "Url is broken"
MSG_FTP == "FTP download error"
MSG_CONN == "Connection error: %s"
MSG_HTTP == "Invalid HTTP response: %s"
MSG_TIMEOUT == "Connection timed out after %ss"
MSG_REDIRECTS == "Too many redirects"
MSG_REQUEST == "Error downloading: %s"
MSG_OTHER == "Error with the download: %s"
MSG_NOTCHANGED == "etag suggests content has not changed"
MSG_STATUS == "Server reported status error: %s %s"
MSG_TOOLARGE == "Content-length %s exceeds maximum allowed value %s"
MSG_API == "Server content contained an API error message: %s"
MSG_SHORT == "Content-length after streaming was %i"

Raised(exc, msg, bl) == [exc |-> exc, msg |-> msg, bl |-> bl]

\* Runs one requests call for url and turns what it raises into
\* DownloadException; exc = "" when the call returned.  kind is what the call
\* did: "response" or the class of the exception.
requests_wrapper(bl, url, kind, has_reason, errno, debug) ==
    IF url.scheme = "ftp"
    THEN \* urlparse(self.url): self is not defined here, the NameError is
         \* caught by the FTP block's own except clause
         Raised("DownloadException", MSG_FTP, bl)
    ELSE CASE kind = "response" -> Raised("", "", bl)
           [] kind = "ConnectionError" ->
                IF has_reason
                THEN Raised("DownloadException", MSG_CONN,
                            add_url_blacklist(bl, url, errno))
                ELSE \* e.args[0].reason raises inside the except clause
                     Raised("Exception", "AttributeError", bl)
           [] kind = "HTTPError" -> Raised("DownloadException", MSG_HTTP, bl)
           [] kind = "Timeout" ->
                Raised("DownloadException", MSG_TIMEOUT,
                       add_url_blacklist(bl, url, ERRNO_TIMEOUT))
           [] kind = "TooManyRedirects" -> Raised("DownloadException", MSG_REDIRECTS, bl)
           [] kind = "RequestException" -> Raised("DownloadException", MSG_REQUEST, bl)
           [] OTHER ->
                IF debug THEN Raised("Exception", kind, bl)
                ELSE Raised("DownloadException", MSG_OTHER, bl)

Outcome(exc, msg, url_redirected_to, result, bl, requests) ==
    [exc |-> exc, msg |-> msg, url_redirected_to |-> url_redirected_to,
     result |-> result, bl |-> bl, requests |-> requests]

\* The network requests of a call of download that goes on retrying with
\* SSLv3 once more
RequestsOf_RetryTwice(url, resp, request_type) ==
    IF url.scheme = "ftp" THEN <<>>
    ELSE IF resp.ssl23
    THEN << [type |-> request_type, sslv3 |-> FALSE],
            [type |-> request_type, sslv3 |-> TRUE],
            [type |-> request_type, sslv3 |-> TRUE] >>
    ELSE << [type |-> request_type, sslv3 |-> FALSE] >>

\* The network requests one call of download issues for a response record
RequestsOf(url, resp, request_type) ==
    IF url.scheme = "ftp" THEN <<>>
    ELSE IF resp.ssl23
    THEN << [type |-> request_type, sslv3 |-> FALSE],
            [type |-> request_type, sslv3 |-> TRUE] >>
    ELSE << [type |-> request_type, sslv3 |-> FALSE] >>

\* download(context, resource) after the head of the response arrived
download_body(url, previous, bl, resp, debug, reqs) ==
    LET url_redirected_to == IF resp.redirected THEN REDIRECT_TARGET ELSE None
        bl_ok == delete_url_blacklist(bl, url)
        mimetype == clean_content_type(resp.content_type)
        content_length == declared_length(resp.clen)
        body == requests_wrapper(bl_ok, url,
                    IF resp.body_exc # "" THEN resp.body_exc
                    ELSE IF resp.body_len = 0 THEN "UnboundLocalError"
                    ELSE "response",
                    FALSE, NoErrno, debug)
        content_len == Min(resp.body_len, CHUNK_SIZE)
        length == 3
    IN  IF /\ previous # <<>>
           /\ resp.etag # None
           /\ previous[1].etag = resp.etag
        THEN Outcome("NotChanged", MSG_NOTCHANGED, None, NoResult, bl, reqs)
        ELSE IF ~resp.ok
        THEN Outcome("DownloadError", MSG_STATUS, url_redirected_to, NoResult, bl, reqs)
        ELSE IF content_length >= MAX_CONTENT_LENGTH
        THEN Outcome("ChooseNotToDownload", MSG_TOOLARGE, url_redirected_to,
                     NoResult, bl_ok, reqs)
        ELSE IF body.exc # ""
        THEN Outcome(body.exc, body.msg, None, NoResult, body.bl, reqs)
        ELSE IF resp.api_error
        THEN Outcome("DownloadError", MSG_API, url_redirected_to, NoResult, bl_ok, reqs)
        ELSE IF content_len > MAX_CONTENT_LENGTH
        THEN Outcome("ChooseNotToDownload", MSG_TOOLARGE, url_redirected_to,
                     NoResult, bl_ok, reqs)
        ELSE IF length < 2
        THEN Outcome("DownloadError", MSG_SHORT, url_redirected_to, NoResult, bl_ok, reqs)
        ELSE Outcome("", "", url_redirected_to,
                     [mimetype |-> mimetype, size |-> length, hash |-> "None",
                      headers |-> Headers(TRUE, resp.etag, resp.last_modified),
                      saved_file |-> "None",
                      url_redirected_to |-> url_redirected_to,
                      request_type |-> "GET"],
                     bl_ok, reqs)

\* download with a context that holds no previous archival
download_NoPrevious(resource, previous, bl, resp, debug, archive_cloud, request_type) ==
    LET tidy == tidy_url(resource.url)
        url == tidy.url
        hosted_externally == ~StartsWithSiteUrl(url)
        head == requests_wrapper(bl, url, resp.kind, resp.has_reason, resp.errno, debug)
        reqs == RequestsOf(url, resp, request_type)
    IN  IF ~tidy.ok
        THEN Outcome("LinkInvalidError", tidy.msg, None, NoResult, bl, <<>>)
        ELSE IF resource.url_type = "upload" /\ hosted_externally /\ ~archive_cloud
        THEN Outcome("ChooseNotToDownload", MSG_CLOUD, REQUESTED_URL, NoResult, bl, <<>>)
        ELSE IF check_url_blacklist(bl, url) # NoErrno
        THEN Outcome("ChooseNotToDownload", MSG_BLACKLISTED, None, NoResult, bl, <<>>)
        ELSE IF head.exc # ""
        THEN Outcome(head.exc, head.msg, None, NoResult, head.bl, reqs)
        ELSE download_body(url, <<>>, bl, resp, debug, reqs)

\* download(context, resource): exc = "" and the dict of results, or the class
\* and message of what it raises; with the blacklist it leaves and the network
\* requests it issued.
download(resource, previous, bl, resp, debug, archive_cloud, request_type) ==
    LET tidy == tidy_url(resource.url)
        url == tidy.url
        hosted_externally == ~StartsWithSiteUrl(url)
        head == requests_wrapper(bl, url, resp.kind, resp.has_reason, resp.errno, debug)
        reqs == RequestsOf(url, resp, request_type)
    IN  IF ~tidy.ok
        THEN Outcome("LinkInvalidError", tidy.msg, None, NoResult, bl, <<>>)
        ELSE IF resource.url_type = "upload" /\ hosted_externally /\ ~archive_cloud
        THEN Outcome("ChooseNotToDownload", MSG_CLOUD, REQUESTED_URL, NoResult, bl, <<>>)
        ELSE IF check_url_blacklist(bl, url) # NoErrno
        THEN Outcome("ChooseNotToDownload", MSG_BLACKLISTED, None, NoResult, bl, <<>>)
        ELSE IF head.exc # ""
        THEN Outcome(head.exc, head.msg, None, NoResult, head.bl, reqs)
        ELSE download_body(url, previous, bl, resp, debug, reqs)

\* ------------------------------------------------------------------------
\* The ledger: table archival (model.py) and save_archival
\* ------------------------------------------------------------------------
\* Archival.create: a row whose columns are unset; size takes its column
\* default when the row is inserted
NewArchival(now) ==
    [status_id |-> -1, is_broken |-> "None", reason |-> None,
     url_redirected_to |-> None,
     cache_filepath |-> None, cache_url |-> None, size |-> 0,
     mimetype |-> None, hash |-> None, etag |-> None, last_modified |-> None,
     first_failure |-> NoTime, last_success |-> NoTime, failure_count |-> 0,
     created |-> now, updated |-> NoTime]

NoArchive == [cache_filepath |-> None, cache_url |-> None]

\* LatestAttempt with the assignment of is_broken left out: the column keeps
\* what the row held
LatestAttempt_StaleIsBroken(archival, status_id, reason, url_redirected_to) ==
    [archival EXCEPT !.status_id = status_id,
                     !.reason = reason,
                     !.url_redirected_to = url_redirected_to]

\* "Details of the latest archival attempt"
LatestAttempt(archival, status_id, reason, url_redirected_to) ==
    [archival EXCEPT !.status_id = status_id,
                     !.is_broken = is_status_broken(status_id),
                     !.reason = reason,
                     !.url_redirected_to = url_redirected_to]

\* SuccessDetails with an else branch that empties every detail of the last
\* success
SuccessDetails_ClearAll(archival, download_result, archive_result) ==
    IF archival.is_broken = "False"
    THEN [archival EXCEPT !.cache_filepath = archive_result.cache_filepath,
                          !.cache_url = archive_result.cache_url,
                          !.size = download_result.size,
                          !.mimetype = download_result.mimetype,
                          !.hash = download_result.hash,
                          !.etag = download_result.headers.etag,
                          !.last_modified = download_result.headers.last_modified]
    ELSE [archival EXCEPT !.cache_filepath = None, !.cache_url = None,
                          !.size = 0, !.mimetype = None, !.hash = None,
                          !.etag = None, !.last_modified = None]

\* SuccessDetails with an else branch that empties size, mimetype, hash, etag
\* and last_modified and keeps cache_filepath and cache_url
SuccessDetails_ClearButCache(archival, download_result, archive_result) ==
    IF archival.is_broken = "False"
    THEN [archival EXCEPT !.cache_filepath = archive_result.cache_filepath,
                          !.cache_url = archive_result.cache_url,
                          !.size = download_result.size,
                          !.mimetype = download_result.mimetype,
                          !.hash = download_result.hash,
                          !.etag = download_result.headers.etag,
                          !.last_modified = download_result.headers.last_modified]
    ELSE [archival EXCEPT !.size = 0, !.mimetype = None, !.hash = None,
                          !.etag = None, !.last_modified = None]

\* "Details of successful archival"
SuccessDetails(archival, download_result, archive_result) ==
    IF archival.is_broken = "False"
    THEN [archival EXCEPT !.cache_filepath = archive_result.cache_filepath,
                          !.cache_url = archive_result.cache_url,
                          !.size = download_result.size,
                          !.mimetype = download_result.mimetype,
                          !.hash = download_result.hash,
                          !.etag = download_result.headers.etag,
                          !.last_modified = download_result.headers.last_modified]
    ELSE archival

\* History whose last branch counts the failure twice
History_CountsTwice(archival, first_archival, previous_archival_was_broken, now) ==
    IF archival.is_broken = "False"
    THEN [archival EXCEPT !.last_success = now,
                          !.first_failure = NoTime,
                          !.failure_count = 0]
    ELSE IF first_archival \/ previous_archival_was_broken = "False"
    THEN [archival EXCEPT !.first_failure = now, !.failure_count = 1]
    ELSE [archival EXCEPT !.failure_count = @ + 2]

\* History whose last branch does not count the failure
History_NoIncrement(archival, first_archival, previous_archival_was_broken, now) ==
    IF archival.is_broken = "False"
    THEN [archival EXCEPT !.last_success = now,
                          !.first_failure = NoTime,
                          !.failure_count = 0]
    ELSE IF first_archival \/ previous_archival_was_broken = "False"
    THEN [archival EXCEPT !.first_failure = now, !.failure_count = 1]
    ELSE archival

\* History whose success branch leaves first_failure as it was
History_KeepFirstFailure(archival, first_archival, previous_archival_was_broken, now) ==
    IF archival.is_broken = "False"
    THEN [archival EXCEPT !.last_success = now,
                          !.failure_count = 0]
    ELSE IF first_archival \/ previous_archival_was_broken = "False"
    THEN [archival EXCEPT !.first_failure = now, !.failure_count = 1]
    ELSE [archival EXCEPT !.failure_count = @ + 1]

\* History that stamps first_failure on every failure
History_RestampFirstFailure(archival, first_archival, previous_archival_was_broken, now) ==
    IF archival.is_broken = "False"
    THEN [archival EXCEPT !.last_success = now,
                          !.first_failure = NoTime,
                          !.failure_count = 0]
    ELSE IF first_archival \/ previous_archival_was_broken = "False"
    THEN [archival EXCEPT !.first_failure = now, !.failure_count = 1]
    ELSE [archival EXCEPT !.first_failure = now, !.failure_count = @ + 1]

\* "History"
History(archival, first_archival, previous_archival_was_broken, now) ==
    IF archival.is_broken = "False"
    THEN [archival EXCEPT !.last_success = now,
                          !.first_failure = NoTime,
                          !.failure_count = 0]
    ELSE IF first_archival \/ previous_archival_was_broken = "False"
    THEN [archival EXCEPT !.first_failure = now, !.failure_count = 1]
    ELSE [archival EXCEPT !.failure_count = @ + 1]

\* save_archival: the row it commits for the resource, given the row found
\* (found = <<>> when there is none).  ok = FALSE when it raises before the
\* commit: download_result['headers'] is None and .get is called on it.
save_archival(found, status_id, reason, url_redirected_to, download_result, archive_result, now) ==
    LET first_archival == found = <<>>
        archival == IF first_archival THEN NewArchival(now) ELSE found[1]
        previous_archival_was_broken ==
            IF first_archival THEN "None" ELSE found[1].is_broken
        latest == LatestAttempt(archival, status_id, reason, url_redirected_to)
        raises == latest.is_broken = "False" /\ ~download_result.headers.present
        details == SuccessDetails(latest, download_result, archive_result)
        history == History(details, first_archival, previous_archival_was_broken, now)
    IN  [ok |-> ~raises, archival |-> [history EXCEPT !.updated = now]]

\* ------------------------------------------------------------------------
\* State
\* ------------------------------------------------------------------------
VARIABLES
    archival,            \* the ledger: resource id -> row, for the ids that have one
    blacklist,           \* the blacklist table: path -> [count, errno]
    clock,               \* datetime.now() of the latest ledger update
    runs,                \* runs of _update_resource started so far
    unusual,             \* inputs so far that were not the everyday ones
    pc,                  \* where the worker is: "idle", "download", "api", "done"
    resource,            \* the resource dict of the run
    DEBUG,               \* os.environ.get('DEBUG') in the worker of the run
    cache_url_root,      \* config 'ckanext-archiver.cache_url_root', None when unset
    archive_cloud,       \* config 'ckanext-archiver.archive_cloud' in the run
    previous,            \* context['previous']: <<>> or <<row>>
    e,                   \* the exception the plain download raised
    download_status_id,  \* the local of _update_resource
    api_request_func,    \* index of the next function api_request tries
    requests,            \* the network requests the run issued, in order
    saves,               \* ledger updates committed by the run
    found,               \* the row save_archival found in the run: <<>> or <<row>>
    notifications,       \* IPipe notifications the run sent, in order
    result,              \* what the run returned: "None", "json", "raised"; "" while running
    failures_since_ok,   \* history: per resource id, the updates with is_broken
                         \* other than False since the latest one with False
    calls,               \* history: the calls of download the run made, in order
    response,            \* history: <<the response to the run's plain request>>
    repeat,              \* history: the run before this one was of the same
                         \* resource dict
    db,                  \* the archival table as celery workers that run
                         \* save_archival at the same time see it: its rows,
                         \* and where each worker is in save_archival
    pkg,                 \* the run of _update_package: where it is, its package,
                         \* the resources handled, num_archived, the IPipe
                         \* notifications sent since it began, in order
    link,                \* the call of link_checker: where it is, its URL, the HEAD
                         \* requests it sent, what requests.head did, what it raised
                         \* or returned, and the calls made so far
    bw,                  \* the blacklist table as workers that run add_url_blacklist
                         \* at the same time see it: its rows, whether path is unique
                         \* in it, where each worker is, the failures so far
    shown,               \* the dataset being shown: its archivals and what
                         \* after_show put under pkg_dict['archiver']
    streak               \* history: <<n>> while every call of download that issued
                         \* a request so far, n of them, went to http://h1 and
                         \* ended in a connection error or timeout that was
                         \* counted; <<>> after any other call that issued one

vars == <<archival, blacklist, clock, runs, unusual, pc, resource, DEBUG,
          cache_url_root, archive_cloud,
          previous, e, download_status_id, api_request_func, requests, saves,
          found, notifications, result, failures_since_ok, calls,
          response, repeat, streak, pkg, db, link, bw, shown>>

\* link_checker has not been called
NoLink ==
    [pc |-> "idle", url |-> Url("", "", <<>>, "", FALSE, FALSE), heads |-> 0,
     res |-> [kind |-> "", status_code |-> 0], exc |-> "", returned |-> None,
     calls |-> 0]

\* The celery workers
Workers == {"w1", "w2"}

\* The archival table is empty and no worker is in save_archival
NoWorkers ==
    [table |-> <<>>, now |-> NoTime, started |-> 0,
     worker |-> [w \in Workers |->
                    [pc |-> "idle", resource_id |-> None, status_id |-> 0,
                     now |-> NoTime, at |-> 0, loaded |-> <<>>]]]

\* The URLs whose requests fail in the workers: two hosts, no path
FailingUrls ==
    { Url("http", "h1", <<>>, "", FALSE, FALSE),
      Url("http", "h2", <<>>, "", FALSE, FALSE) }

\* The blacklist table is empty and no worker is in add_url_blacklist
NoFailures ==
    [table |-> <<>>, unique |-> FALSE, started |-> 0,
     failed |-> [u \in FailingUrls |-> 0],
     worker |-> [w \in Workers |->
                    [pc |-> "idle", url_paths |-> <<>>, errno |-> NoErrno]]]

\* No archival has been read for the dataset and nothing has been shown
NoShown ==
    [archivals |-> <<>>, pc |-> "read", aggregated |-> None, archiver |-> None]

\* No run of _update_package has begun
NoPackage ==
    [pc |-> "none", package |-> [id |-> None, resources |-> <<>>], first_run |-> 0,
     idx |-> 0, num_archived |-> 0, pipe |-> <<>>, qa_waiting |-> FALSE,
     indexed |-> FALSE]

\* package_show: the packages of the catalog, with the ids of their resources
Packages ==
    { [id |-> "p0", resources |-> <<>>],
      [id |-> "p1", resources |-> <<"r1">>],
      [id |-> "p2", resources |-> <<"r1", "r2">>] }

\* The budget of unusual inputs
Cost(everyday) == IF everyday THEN 0 ELSE 1

Spend(n) == unusual + n <= MaxUnusual /\ unusual' = unusual + n

NoException == [exc |-> "", msg |-> "", url_redirected_to |-> None]

QUEUE == "bulk"

\* The value of 'ckanext-archiver.cache_url_root' when it is configured
CACHE_URL_ROOT == "http://cache/"

\* The variants with WFS tried first
ApiRequestFuncs_WfsFirst == <<"WFS 2.0", "WMS 1.3", "WMS 1.1.1">>

ApiRequestFuncs == <<"WMS 1.3", "WMS 1.1.1", "WFS 2.0">>

ApiQuery ==
    [t \in {"WMS 1.3", "WMS 1.1.1", "WFS 2.0"} |->
        CASE t = "WMS 1.3" -> "service=WMS&request=GetCapabilities&version=1.3"
          [] t = "WMS 1.1.1" -> "service=WMS&request=GetCapabilities&version=1.1.1"
          [] t = "WFS 2.0" -> "service=WFS&request=GetCapabilities&version=2.0"]

\* The state after construction, with spent of the budget of unusual inputs
\* used up beforehand
InitWith(spent) ==
    /\ archival = <<>>
    /\ blacklist = <<>>
    /\ clock = NoTime
    /\ runs = 0
    /\ DEBUG \in BOOLEAN
    /\ cache_url_root \in {CACHE_URL_ROOT, None}
    /\ unusual = spent + Cost(~DEBUG) + Cost(cache_url_root = CACHE_URL_ROOT)
    /\ pc = "idle"
    /\ resource = [id |-> "r1", url |-> Url("", "", <<>>, "", FALSE, FALSE),
                   url_type |-> None]
    /\ archive_cloud = FALSE
    /\ previous = <<>>
    /\ e = NoException
    /\ download_status_id = 0
    /\ api_request_func = 1
    /\ requests = <<>>
    /\ saves = 0
    /\ found = <<>>
    /\ notifications = <<>>
    /\ result = ""
    /\ failures_since_ok = [id \in ResourceIds |-> 0]
    /\ calls = <<>>
    /\ response = <<>>
    /\ repeat = FALSE
    /\ streak = <<0>>
    /\ pkg = NoPackage
    /\ db = NoWorkers
    /\ link = NoLink
    /\ bw = NoFailures
    /\ shown = NoShown

Init == InitWith(0)

\* Archival.get_for_resource
get_for_resource(resource_id) ==
    IF resource_id \in DOMAIN archival THEN <<archival[resource_id]>> ELSE <<>>

\* notify_resource: the 'archived' notification
Archived(res, cache_filepath) ==
    [operation |-> "archived", resource_id |-> res.id, queue |-> QUEUE,
     cache_filepath |-> cache_filepath]

\* _save that commits the row and sends no notification
save_WithoutNotify(res, status_id, reason, url_redirected_to, download_result, archive_result, saved, notified) ==
    LET now == clock + 1
        row == get_for_resource(res.id)
        s == save_archival(row, status_id, reason, url_redirected_to,
                           download_result, archive_result, now)
    IN  IF s.ok
        THEN /\ archival' = [id \in DOMAIN archival \cup {res.id} |->
                                IF id = res.id THEN s.archival ELSE archival[id]]
             /\ clock' = now
             /\ saves' = saved + 1
             /\ found' = row
             /\ notifications' = notified
             /\ failures_since_ok' =
                    [failures_since_ok EXCEPT ![res.id] =
                        IF is_status_broken(status_id) = "False" THEN 0 ELSE @ + 1]
        ELSE /\ saves' = saved
             /\ found' = row
             /\ notifications' = notified
             /\ UNCHANGED <<archival, clock, failures_since_ok>>

\* _save of _update_resource: save_archival, then notify_resource.  When
\* save_archival raises, nothing is committed and nothing is notified.
\* saved and notified are the run's ledger updates and notifications so far.
save(res, status_id, reason, url_redirected_to, download_result, archive_result, saved, notified) ==
    LET now == clock + 1
        row == get_for_resource(res.id)
        s == save_archival(row, status_id, reason, url_redirected_to,
                           download_result, archive_result, now)
    IN  IF s.ok
        THEN /\ archival' = [id \in DOMAIN archival \cup {res.id} |->
                                IF id = res.id THEN s.archival ELSE archival[id]]
             /\ clock' = now
             /\ saves' = saved + 1
             /\ found' = row
             /\ notifications' = Append(notified, Archived(res, None))
             /\ failures_since_ok' =
                    [failures_since_ok EXCEPT ![res.id] =
                        IF is_status_broken(status_id) = "False" THEN 0 ELSE @ + 1]
        ELSE /\ saves' = saved
             /\ found' = row
             /\ notifications' = notified
             /\ UNCHANGED <<archival, clock, failures_since_ok>>

\* settings.ARCHIVE_DIR
ARCHIVE_DIR == "/archive"

\* resource['id'][:2] of the two-character ids the model uses
Shard(id) == id

\* parsed_url.path.split('/')[-1] or 'resource'
file_name(url) ==
    IF Len(url.path) = 0 THEN "resource" ELSE url.path[Len(url.path)]

\* archive_resource: where it moves the downloaded file and the address it
\* computes; ok = FALSE is the ArchiveError for a missing cache_url_root.
\* _update_resource does not call it.
archive_resource(root, res) ==
    LET relative_archive_path == Shard(res.id) \o "/" \o res.id
        saved_file == ARCHIVE_DIR \o "/" \o relative_archive_path \o "/"
                          \o file_name(res.url)
    IN  IF root = None
        THEN [ok |-> FALSE, cache_filepath |-> saved_file, cache_url |-> None]
        ELSE [ok |-> TRUE, cache_filepath |-> saved_file,
              cache_url |-> root \o relative_archive_path \o "/" \o file_name(res.url)]

\* mimetypes.guess_type(url)[0] for the file names the model uses
guess_type(url) ==
    IF Len(url.path) > 0 /\ url.path[Len(url.path)] = "file.csv"
    THEN "text/csv" ELSE None

\* The test of _update_resource for a file uploaded to this site
UploadedLocally(res) ==
    LET url == res.url
        hosted_externally == StartsWithHttp(url) /\ ~StartsWithSiteUrl(url)
    IN  res.url_type = "upload" /\ ~hosted_externally

\* A run of _update_resource begins: its locals are fresh
Begin(res, cloud) ==
    /\ pc \in {"idle", "done"}
    /\ runs < MaxRuns
    /\ Spend(Cost(res = BasicResource))
    /\ runs' = runs + 1
    /\ resource' = res
    /\ archive_cloud' = cloud
    /\ UNCHANGED <<DEBUG, cache_url_root>>
    /\ e' = NoException
    /\ download_status_id' = by_text("Archived successfully")
    /\ api_request_func' = 1
    /\ requests' = <<>>
    /\ calls' = <<>>
    /\ response' = <<>>
    /\ repeat' = (runs > 0 /\ res = resource)

\* _update_resource for a file uploaded to this site: nothing is downloaded,
\* the local file is hashed and the ledger updated.  readable = FALSE is the
\* IOError of _file_hashnlength.
UpdateUploadedResource(res, readable, length) ==
    LET content_type == guess_type(res.url)
        headers == IF content_type = None THEN Headers(FALSE, None, None)
                   ELSE Headers(TRUE, None, None)
        download_result_mock ==
            [mimetype |-> IF content_type = None THEN None
                          ELSE clean_content_type(content_type),
             size |-> length, hash |-> "sha1", headers |-> headers,
             saved_file |-> "filepath", url_redirected_to |-> REQUESTED_URL,
             request_type |-> "GET"]
        archive_result_mock ==
            [cache_filepath |-> "filepath", cache_url |-> REQUESTED_URL]
    IN  /\ Begin(res, FALSE)
        /\ UploadedLocally(res)
        /\ pc' = "done"
        /\ previous' = <<>>
        /\ IF ~readable
           THEN /\ save(res, by_text("URL request failed"), "IOError", None,
                        NoResult, NoArchive, 0, <<>>)
                /\ result' = "None"
           ELSE /\ save(res, by_text("Archived successfully"), "",
                        download_result_mock.url_redirected_to,
                        download_result_mock, archive_result_mock, 0, <<>>)
                /\ result' = IF headers.present THEN "json" ELSE "raised"
        /\ UNCHANGED <<blacklist, streak, pkg, db, link, bw, shown>>

\* _update_resource up to the call of download
StartDownload(res, cloud) ==
    /\ Begin(res, cloud)
    /\ ~UploadedLocally(res)
    /\ cloud => res.url_type = "upload"
    /\ pc' = "download"
    /\ previous' = get_for_resource(res.id)
    /\ saves' = 0
    /\ found' = <<>>
    /\ notifications' = <<>>
    /\ result' = ""
    /\ UNCHANGED <<archival, blacklist, clock, failures_since_ok, streak, pkg, db, link, bw, shown>>

\* "Archival" and "Success" that give a second archive of a resource an
\* address of its own
ArchiveAndSave_Versioned(download_result) ==
    LET archive_result ==
            [cache_filepath |-> "None",
             cache_url |-> IF get_for_resource(resource.id) = <<>>
                           THEN "None" ELSE "None.1"]
    IN  /\ save(resource, by_text("Archived successfully"), "",
                download_result.url_redirected_to, download_result,
                archive_result, saves, notifications)
        /\ result' = "json"

\* "Archival" and "Success" of _update_resource: the store step is replaced
\* by the fixed archive_result, so ArchiveError is never raised
ArchiveAndSave(download_result) ==
    LET archive_result == [cache_filepath |-> "None", cache_url |-> "None"]
    IN  /\ save(resource, by_text("Archived successfully"), "",
                download_result.url_redirected_to, download_result,
                archive_result, saves, notifications)
        /\ result' = "json"

\* SaveError that always records 'Download error', whatever status the
\* except clause chose
SaveError_AlwaysDownloadError(status_id, exception) ==
    /\ save(resource, by_text("Download error"), exception.msg, None,
            NoResult, NoArchive, saves, notifications)
    /\ result' = "None"

\* SaveError that records no reason
SaveError_WithoutReason(status_id, exception) ==
    /\ save(resource, status_id, "", None, NoResult, NoArchive, saves, notifications)
    /\ result' = "None"

\* _save(download_status_id, e, resource, *extra_args) of the error branch
SaveError(status_id, exception) ==
    LET args == {exception.msg}
        url_redirected_to ==
            IF "url_redirected_to" \in args THEN exception.url_redirected_to
            ELSE None
    IN  /\ save(resource, status_id, exception.msg, url_redirected_to,
                NoResult, NoArchive, saves, notifications)
        /\ result' = "None"

NoSave == UNCHANGED <<archival, clock, saves, found, notifications, failures_since_ok>>

AsException(d) ==
    [exc |-> d.exc, msg |-> d.msg, url_redirected_to |-> d.url_redirected_to]

\* try_as_api with ChooseNotToDownload treated like a download error
try_as_api_AlsoWhenChoseNot(exc) ==
    exc \in {"DownloadException", "DownloadError", "ChooseNotToDownload"}

\* try_as_api as the except clauses of _update_resource set it for the class
\* of the exception download raised
try_as_api(exc) == exc \in {"DownloadException", "DownloadError"}

\* One call of download as the run saw it: the method or API variant,
\* whether it returned a result, the number of requests it issued, and the
\* request_type of the dict handed on (None when the call raised)
Call(request_type, d, download_dict) ==
    [type |-> request_type, ok |-> d.exc = "", requests |-> Len(d.requests),
     request_type |-> IF d.exc = "" THEN download_dict.request_type ELSE None]

\* The call of download issued a request to http://h1 that raised a
\* ConnectionError or Timeout for which add_url_blacklist was called
CountedFailure(url, resp, d) ==
    /\ Lower(url.scheme) = "http" /\ url.host = "h1"
    /\ resp.kind \in {"ConnectionError", "Timeout"}
    /\ d.exc = "DownloadException"
    /\ d.msg \in {MSG_CONN, MSG_TIMEOUT}

\* streak after a call of download
NextStreak(url, resp, d) ==
    IF streak = <<>> \/ Len(d.requests) = 0 THEN streak
    ELSE IF CountedFailure(url, resp, d) THEN <<streak[1] + 1>>
    ELSE <<>>

\* _update_resource from the call of download to the first of: its return,
\* or the call of api_request
Download(resp) ==
    LET d == download(resource, previous, blacklist, resp, DEBUG, archive_cloud, "GET")
    IN  /\ pc = "download"
        /\ Spend(Cost(resp \in BasicResponses))
        /\ blacklist' = d.bl
        /\ requests' = requests \o d.requests
        /\ calls' = Append(calls, Call("GET", d, d.result))
        /\ streak' = NextStreak(resource.url, resp, d)
        /\ response' = <<resp>>
        /\ e' = AsException(d)
        /\ UNCHANGED <<runs, resource, DEBUG, cache_url_root, archive_cloud, previous,
                       api_request_func, repeat, pkg, db, link, bw, shown>>
        /\ CASE d.exc = "" ->
                  /\ download_status_id' = by_text("Archived successfully")
                  /\ ArchiveAndSave(d.result)
                  /\ pc' = "done"
             [] d.exc = "NotChanged" ->
                  \* requires_archive = False: the run returns None
                  /\ download_status_id' = by_text("Content has not changed")
                  /\ NoSave
                  /\ result' = "None"
                  /\ pc' = "done"
             [] d.exc = "LinkInvalidError" ->
                  /\ download_status_id' = by_text("URL invalid")
                  /\ SaveError(by_text("URL invalid"), AsException(d))
                  /\ pc' = "done"
             [] try_as_api(d.exc) ->
                  \* DownloadException, DownloadError
                  /\ download_status_id' = by_text("Download error")
                  /\ NoSave
                  /\ result' = ""
                  /\ pc' = "api"
             [] d.exc = "ChooseNotToDownload" ->
                  /\ download_status_id' = by_text("Chose not to download")
                  /\ SaveError(by_text("Chose not to download"), AsException(d))
                  /\ pc' = "done"
             [] OTHER ->
                  \* except Exception
                  /\ download_status_id' = download_status_id
                  /\ pc' = "done"
                  /\ IF DEBUG
                     THEN NoSave /\ result' = "raised"
                     ELSE SaveError(by_text("Download failure"), AsException(d))

\* ogc_request: the URL without its parameters, with the GetCapabilities ones
ogc_url(url, request_type) == [url EXCEPT !.query = ApiQuery[request_type]]

\* One turn of the loop of api_request, and, when the loop ends, the rest of
\* _update_resource
ApiRequest(resp) ==
    LET request_type == ApiRequestFuncs[api_request_func]
        resource_copy == [resource EXCEPT !.url = ogc_url(resource.url, request_type)]
        d == download(resource_copy, previous, blacklist, resp, DEBUG,
                      archive_cloud, request_type)
        download_dict == [d.result EXCEPT !.request_type = request_type]
        last == api_request_func = Len(ApiRequestFuncs)
    IN  /\ pc = "api"
        /\ Spend(Cost(resp \in BasicApiResponses))
        /\ blacklist' = d.bl
        /\ requests' = requests \o d.requests
        /\ calls' = Append(calls, Call(request_type, d, download_dict))
        /\ streak' = NextStreak(resource.url, resp, d)
        /\ UNCHANGED <<runs, resource, DEBUG, cache_url_root, archive_cloud, previous,
                       e, response, repeat, pkg, db, link, bw, shown>>
        /\ IF d.exc = ""
           THEN \* api_request returns download_dict
                /\ download_status_id' = by_text("Archived successfully")
                /\ api_request_func' = api_request_func
                /\ ArchiveAndSave(download_dict)
                /\ pc' = "done"
           ELSE IF d.exc = "Exception" /\ DEBUG
           THEN /\ NoSave
                /\ result' = "raised"
                /\ pc' = "done"
                /\ UNCHANGED <<download_status_id, api_request_func>>
           ELSE IF ~last
           THEN \* continue
                /\ NoSave
                /\ api_request_func' = api_request_func + 1
                /\ UNCHANGED <<download_status_id, result, pc>>
           ELSE \* api_request returns None: the error of the plain download stands
                /\ SaveError(download_status_id, e)
                /\ pc' = "done"
                /\ UNCHANGED <<download_status_id, api_request_func>>

\* The task update_resource around _update_resource: what reaches celery for
\* what _update_resource did.  An exception is re-raised in debug mode, and
\* logged and re-raised otherwise.
update_resource(r, debug) ==
    IF r = "raised"
    THEN IF debug THEN "raised" ELSE "raised"
    ELSE r

Next ==
    \/ \E res \in ResourceDicts : \E readable \in BOOLEAN, length \in {0, 4} :
         UpdateUploadedResource(res, readable, length)
    \/ \E res \in ResourceDicts : \E cloud \in BOOLEAN : StartDownload(res, cloud)
    \/ \E resp \in Responses : Download(resp)
    \/ \E resp \in Responses : ApiRequest(resp)

Spec == Init /\ [][Next]_vars

\* ------------------------------------------------------------------------
\* Packages (update_package, _update_package)
\* ------------------------------------------------------------------------
\* notify_package: the 'package-archived' notification
PackageArchived(package) ==
    [operation |-> "package-archived", package_id |-> package.id, queue |-> QUEUE]

\* send_data that puts the notification before those already sent
send_data_First(pipe, notification) == <<notification>> \o pipe

\* IPipe.send_data: the notification follows those already sent
send_data(pipe, notification) == Append(pipe, notification)

\* The notifications of _update_package after its loop, sent only when
\* something was archived
PackageNotifications_OnlyWhenArchived(package, num_archived) ==
    IF num_archived > 0 THEN <<PackageArchived(package)>> ELSE <<>>

\* The notifications of _update_package after its loop: notify_package in
\* both branches of 'if num_archived > 0'
PackageNotifications(package, num_archived) ==
    IF num_archived > 0 THEN <<PackageArchived(package)>>
    ELSE <<PackageArchived(package)>>

\* The state the resource runs leave alone while a package is not involved
ResourceRunState ==
    <<archival, blacklist, clock, runs, unusual, pc, resource, DEBUG, cache_url_root,
      archive_cloud, previous, e, download_status_id, api_request_func, requests,
      saves, found, notifications, result, failures_since_ok, calls, response,
      repeat, streak>>

\* _update_package begins: package_show, num_archived = 0
UpdatePackage(package) ==
    /\ pkg.pc \in {"none", "done", "raised"}
    /\ pc \in {"idle", "done"}
    /\ runs + Len(package.resources) <= MaxRuns
    /\ pkg' = [pc |-> "loop", package |-> package, first_run |-> runs, idx |-> 0,
               num_archived |-> 0, pipe |-> <<>>, qa_waiting |-> FALSE,
               indexed |-> FALSE]
    /\ UNCHANGED <<ResourceRunState, db, link, bw, shown>>

\* The loop of _update_package is at the call of _update_resource for res
PackageTurn(res) ==
    /\ pkg.pc = "loop"
    /\ runs - pkg.first_run = pkg.idx
    /\ pkg.idx < Len(pkg.package.resources)
    /\ res.id = pkg.package.resources[pkg.idx + 1]

\* The call of _update_resource in the loop, for an uploaded resource
PackageUpdateUploadedResource(res, readable, length) ==
    /\ PackageTurn(res)
    /\ UpdateUploadedResource(res, readable, length)

\* The call of _update_resource in the loop, up to the call of download
PackageStartDownload(res, cloud) ==
    /\ PackageTurn(res)
    /\ StartDownload(res, cloud)

\* _update_resource came back to the loop: 'if res: num_archived += 1'; an
\* exception of _update_resource ends _update_package
PackageLoop ==
    /\ pkg.pc = "loop"
    /\ pc = "done"
    /\ runs - pkg.first_run = pkg.idx + 1
    /\ pkg' = [pkg EXCEPT !.pc = IF result = "raised" THEN "raised" ELSE "loop",
                          !.idx = @ + 1,
                          !.num_archived = IF result = "json" THEN @ + 1 ELSE @,
                          !.pipe = @ \o notifications]
    /\ UNCHANGED <<ResourceRunState, db, link, bw, shown>>

\* _update_package after its loop: notify_package, then _update_search_index
\* unless the qa plugin waits on the pipe
FinishPackage(qa_waiting) ==
    LET sent == PackageNotifications(pkg.package, pkg.num_archived)
    IN  /\ pkg.pc = "loop"
        /\ runs - pkg.first_run = pkg.idx
        /\ pkg.idx = Len(pkg.package.resources)
        /\ pkg' = [pkg EXCEPT !.pc = "done",
                              !.pipe = IF sent = <<>> THEN @ ELSE send_data(@, sent[1]),
                              !.qa_waiting = qa_waiting,
                              !.indexed = ~qa_waiting]
        /\ UNCHANGED <<ResourceRunState, db, link, bw, shown>>

NextPackage ==
    \/ \E package \in Packages : UpdatePackage(package)
    \/ \E res \in ResourceDicts : \E readable \in BOOLEAN, length \in {0, 4} :
         PackageUpdateUploadedResource(res, readable, length)
    \/ \E res \in ResourceDicts : \E cloud \in BOOLEAN : PackageStartDownload(res, cloud)
    \/ \E resp \in Responses : Download(resp)
    \/ \E resp \in Responses : ApiRequest(resp)
    \/ PackageLoop
    \/ \E qa_waiting \in BOOLEAN : FinishPackage(qa_waiting)

\* Package runs are explored with one unusual input per behaviour
InitPackage == InitWith(MaxUnusual - 1)

SpecPackage == InitPackage /\ [][NextPackage]_vars

\* ------------------------------------------------------------------------
\* Workers that run save_archival at the same time
\* ------------------------------------------------------------------------
\* calls of save_archival the workers make in one behaviour
MaxSaves == 3

\* What _update_resource hands save_archival after a download that returned
WorkerResult ==
    [NoResult EXCEPT !.mimetype = "text/csv", !.size = 3, !.hash = "None",
                     !.headers = Headers(TRUE, None, None),
                     !.saved_file = "None", !.request_type = "GET"]

\* The query of Archival.get_for_resource: the place in the table of the
\* first row of the resource, 0 when it has none
first(table, resource_id) ==
    LET at == { i \in 1..Len(table) : table[i].resource_id = resource_id }
    IN  IF at = {} THEN 0 ELSE CHOOSE i \in at : \A j \in at : i <= j

\* save_archival up to the query: now is taken, the row of the resource is
\* loaded into the worker's session if there is one
WorkerBegin(w, resource_id, status_id) ==
    LET at == first(db.table, resource_id)
    IN  /\ db.worker[w].pc = "idle"
        /\ db.started < MaxSaves
        /\ db' = [db EXCEPT
                     !.now = @ + 1,
                     !.started = @ + 1,
                     !.worker[w] =
                         [pc |-> "loaded", resource_id |-> resource_id,
                          status_id |-> status_id, now |-> db.now + 1, at |-> at,
                          loaded |-> IF at = 0 THEN <<>>
                                     ELSE <<db.table[at].archival>>]]
        /\ UNCHANGED <<ResourceRunState, pkg, link, bw, shown>>

\* save_archival from the query to commit_and_remove: the fields are
\* computed from the row as the worker loaded it; a new row is inserted
\* under a fresh primary key, a loaded row is updated in the columns the
\* worker changed
WorkerCommit(w) ==
    LET me == db.worker[w]
        failed == is_status_broken(me.status_id) # "False"
        s == save_archival(me.loaded, me.status_id,
                           IF failed THEN MSG_CONN ELSE "", None,
                           IF failed THEN NoResult ELSE WorkerResult,
                           IF failed THEN NoArchive
                           ELSE [cache_filepath |-> "None", cache_url |-> "None"],
                           me.now)
        stored == db.table[me.at].archival
        updated == [f \in DOMAIN s.archival |->
                       IF s.archival[f] # me.loaded[1][f] THEN s.archival[f]
                       ELSE stored[f]]
    IN  /\ me.pc = "loaded"
        /\ db' = [db EXCEPT
                     !.table = IF me.at = 0
                               THEN Append(@, [resource_id |-> me.resource_id,
                                               archival |-> s.archival])
                               ELSE [@ EXCEPT ![me.at].archival = updated],
                     !.worker[w] = NoWorkers.worker[w]]
        /\ UNCHANGED <<ResourceRunState, pkg, link, bw, shown>>

NextWorkers ==
    \/ \E w \in Workers : \E resource_id \in ResourceIds, status_id \in {0, 12} :
         WorkerBegin(w, resource_id, status_id)
    \/ \E w \in Workers : WorkerCommit(w)

SpecWorkers == Init /\ [][NextWorkers]_vars

\* ------------------------------------------------------------------------
\* Workers that run add_url_blacklist at the same time
\* ------------------------------------------------------------------------
\* calls of add_url_blacklist the workers make in one behaviour
MaxFailures == 4

\* The places in the table of the rows of a path
RowsOf(table, path) == { i \in 1..Len(table) : table[i].path = path }

\* requests_wrapper caught a ConnectionError for url and calls
\* add_url_blacklist: the prefixes are put finest first.  The definition of
\* the table is not part of the source: before the first call it is open
\* whether path is unique in it.
FailureBegin(w, url, errno, unique) ==
    /\ bw.worker[w].pc = "idle"
    /\ bw.started < MaxFailures
    /\ bw.started > 0 => unique = bw.unique
    /\ bw' = [bw EXCEPT
                 !.unique = unique,
                 !.started = @ + 1,
                 !.failed[url] = @ + 1,
                 !.worker[w] = [pc |-> "select", errno |-> errno,
                                url_paths |-> Reverse(get_url_paths(url))]]
    /\ UNCHANGED <<ResourceRunState, pkg, db, link, shown>>

\* sql_SELECT for the first path left in the walk: rowcount decides between
\* the UPDATE and the INSERT
FailureSelect(w) ==
    LET me == bw.worker[w]
        rowcount == Cardinality(RowsOf(bw.table, me.url_paths[1]))
    IN  /\ me.pc = "select"
        /\ bw' = [bw EXCEPT !.worker[w].pc = IF rowcount > 0 THEN "update" ELSE "insert"]
        /\ UNCHANGED <<ResourceRunState, pkg, db, link, shown>>

\* sql_UPDATE and commit, then break
FailureUpdate(w) ==
    LET me == bw.worker[w]
    IN  /\ me.pc = "update"
        /\ bw' = [bw EXCEPT
                     !.table = [i \in 1..Len(@) |->
                                   IF @[i].path = me.url_paths[1]
                                   THEN [@[i] EXCEPT !.count = @ + 1] ELSE @[i]],
                     !.worker[w] = NoFailures.worker[w]]
        /\ UNCHANGED <<ResourceRunState, pkg, db, link, shown>>

\* sql_INSERT and commit, then the next path of the walk.  When path is
\* unique and a row for it was committed since the SELECT, the INSERT
\* raises IntegrityError, which ends the call.
FailureInsert(w) ==
    LET me == bw.worker[w]
        path == me.url_paths[1]
        rest == Tail(me.url_paths)
        refused == bw.unique /\ RowsOf(bw.table, path) # {}
    IN  /\ me.pc = "insert"
        /\ bw' = [bw EXCEPT
                     !.table = IF refused THEN @
                               ELSE Append(@, [path |-> path, count |-> 1,
                                               errno |-> me.errno]),
                     !.worker[w] = IF refused \/ rest = <<>>
                                   THEN NoFailures.worker[w]
                                   ELSE [me EXCEPT !.pc = "select", !.url_paths = rest]]
        /\ UNCHANGED <<ResourceRunState, pkg, db, link, shown>>

NextFailures ==
    \/ \E w \in Workers, url \in FailingUrls, errno \in {101, 111}, unique \in BOOLEAN :
         FailureBegin(w, url, errno, unique)
    \/ \E w \in Workers : FailureSelect(w)
    \/ \E w \in Workers : FailureUpdate(w)
    \/ \E w \in Workers : FailureInsert(w)

SpecFailures == Init /\ [][NextFailures]_vars

\* ------------------------------------------------------------------------
\* The blacklist under the calls of download that the runs make
\* ------------------------------------------------------------------------
\* No row is counted beyond this by the calls that are followed
MaxCount == 5

\* The resources whose calls are followed: a host and a file two levels below
BlockingResources ==
    { [id |-> "r1", url |-> Url("http", "h1", <<"a", "b">>, "x=1", FALSE, FALSE),
       url_type |-> None],
      [id |-> "r1", url |-> Url("HTTP", "h1", <<>>, "", TRUE, FALSE),
       url_type |-> None] }

\* The answers that are followed: a good response, an error status, and a
\* connection failure with and without an error code
BlockingResponses ==
    { OkResponse, [OkResponse EXCEPT !.ok = FALSE],
      [Failure("ConnectionError") EXCEPT !.errno = 101],
      Failure("ConnectionError") }

\* The blacklist stays within the counts that are followed
WithinMaxCount(bl) == \A p \in DOMAIN bl : bl[p].count <= MaxCount

\* What a call of download leaves alone
AllButBlacklist ==
    <<archival, clock, runs, unusual, pc, resource, DEBUG, cache_url_root,
      archive_cloud, previous, e, download_status_id, api_request_func, requests,
      saves, found, notifications, result, failures_since_ok, calls, response,
      repeat, streak, pkg, db, link, bw, shown>>

\* The plain download of a run of _update_resource for res, as the blacklist
\* sees it.  The variants that follow a failed plain download are calls of
\* their own (FetchVariant); a variant answered with an error status leaves
\* the blacklist as it is.
FetchPlain(res, resp) ==
    LET d == download(res, previous, blacklist, resp, DEBUG, archive_cloud, "GET")
    IN  /\ WithinMaxCount(d.bl)
        /\ blacklist' = d.bl
        /\ UNCHANGED AllButBlacklist

\* One turn of the loop of api_request for res, as the blacklist sees it
FetchVariant(res, resp, func) ==
    LET request_type == ApiRequestFuncs[func]
        resource_copy == [res EXCEPT !.url = ogc_url(res.url, request_type)]
        d == download(resource_copy, previous, blacklist, resp, DEBUG,
                      archive_cloud, request_type)
    IN  /\ WithinMaxCount(d.bl)
        /\ blacklist' = d.bl
        /\ UNCHANGED AllButBlacklist

NextBlocking ==
    \/ \E res \in BlockingResources : \E resp \in BlockingResponses :
         FetchPlain(res, resp)
    \/ \E res \in BlockingResources : \E resp \in BlockingResponses :
         \E func \in 1..Len(ApiRequestFuncs) : FetchVariant(res, resp, func)

SpecBlocking == Init /\ [][NextBlocking]_vars

\* ------------------------------------------------------------------------
\* The archival of a dataset, aggregated from those of its resources
\* (aggregate_archivals_for_a_dataset, after_show)
\* ------------------------------------------------------------------------
MaxArchivals == 2

\* The reasons the archivals of the dataset carry
Reasons == {"reason a", "reason b"}

\* What get_for_package can return: rows written by save_archival, which
\* always sets a status id of the enumeration
Archivals == [status_id : DOMAIN StatusById, reason : Reasons]

\* Python's None in the status_id of the aggregate: no archival looked at yet
NoStatusId == -1

\* The loop of the function: an archival replaces what has been found when
\* nothing has been found yet or when its status id is strictly higher
RECURSIVE aggregate_loop_Lowest(_, _)
RECURSIVE aggregate_loop(_, _)

aggregate_loop_Lowest(archivals, archival_dict) ==
    IF archivals = <<>> THEN archival_dict
    ELSE LET one == Head(archivals)
         IN  aggregate_loop_Lowest(Tail(archivals),
                 IF \/ archival_dict.status_id = NoStatusId
                    \/ one.status_id < archival_dict.status_id
                 THEN [archival_dict EXCEPT !.status_id = one.status_id,
                                            !.reason = one.reason]
                 ELSE archival_dict)

aggregate_loop(archivals, archival_dict) ==
    IF archivals = <<>> THEN archival_dict
    ELSE LET one == Head(archivals)
         IN  aggregate_loop(Tail(archivals),
                 IF \/ archival_dict.status_id = NoStatusId
                    \/ one.status_id > archival_dict.status_id
                 THEN [archival_dict EXCEPT !.status_id = one.status_id,
                                            !.reason = one.reason]
                 ELSE archival_dict)

aggregate_archivals_for_a_dataset(archivals) ==
    LET archival_dict == aggregate_loop(archivals,
                             [status_id |-> NoStatusId, status |-> None,
                              reason |-> None, is_broken |-> None])
    IN  IF archivals # <<>>
        THEN [archival_dict EXCEPT
                 !.status = StatusById[archival_dict.status_id],
                 !.is_broken = is_status_broken(archival_dict.status_id)]
        ELSE archival_dict

\* get_for_package finds one more archival of the dataset
GetForPackage(one) ==
    /\ shown.pc = "read"
    /\ Len(shown.archivals) < MaxArchivals
    /\ shown' = [shown EXCEPT !.archivals = Append(@, one)]
    /\ UNCHANGED <<ResourceRunState, pkg, db, link, bw>>

\* aggregate_archivals_for_a_dataset applied to the archivals read, none included
Aggregate ==
    /\ shown.pc = "read"
    /\ shown' = [shown EXCEPT
                    !.pc = "aggregated",
                    !.aggregated = aggregate_archivals_for_a_dataset(shown.archivals)]
    /\ UNCHANGED <<ResourceRunState, pkg, db, link, bw>>

\* after_show: a dataset without archivals gets no 'archiver' key
AfterShow ==
    /\ shown.pc = "aggregated"
    /\ shown' = [shown EXCEPT
                    !.pc = "shown",
                    !.archiver = IF shown.archivals = <<>> THEN None
                                 ELSE aggregate_archivals_for_a_dataset(shown.archivals)]
    /\ UNCHANGED <<ResourceRunState, pkg, db, link, bw>>

NextAggregate ==
    \/ \E one \in Archivals : GetForPackage(one)
    \/ Aggregate
    \/ AfterShow

SpecAggregate == Init /\ [][NextAggregate]_vars

\* ------------------------------------------------------------------------
\* The link checker (link_checker)
\* ------------------------------------------------------------------------
\* calls of link_checker in one behaviour
MaxChecks == 3

\* data['url']: the URLs of the resources, and the empty string
LinkUrls == Urls \cup {Url("", "", <<>>, "", FALSE, FALSE)}

\* What the server, or the requests library, does with the HEAD request: a
\* response with a status code, or an exception of the class named
HeadAnswers ==
    { [kind |-> "response", status_code |-> c] :
          c \in {200, 301, 399, 400, 404, 405, 503} }
    \cup { [kind |-> k, status_code |-> 0] :
             k \in {"InvalidURL", "ValueError", "ConnectionError", "HTTPError",
                    "Timeout", "TooManyRedirects", "RequestException",
                    "Exception"} }

\* requests.head(url): requests has no connection adapter for ftp and raises
\* InvalidSchema, a ValueError, whatever the server would answer
requests_head(url, answer) ==
    IF Lower(url.scheme) \notin {"http", "https"}
    THEN [kind |-> "ValueError", status_code |-> 0]
    ELSE answer

\* The try statement of link_checker that treats status 405 like any other
\* status
head_outcome_405AsAnyOther(res) ==
    IF res.kind # "response" THEN "LinkHeadRequestError"
    ELSE IF ~(res.status_code < 400) \/ res.status_code >= 400
    THEN "LinkHeadRequestError"
    ELSE ""

\* The try statement of link_checker: the class of what it raises for what
\* requests.head did, "" when it falls through to the return
head_outcome(res) ==
    IF res.kind # "response" THEN "LinkHeadRequestError"
    ELSE IF res.status_code = 405 THEN "LinkHeadMethodNotSupported"
    ELSE IF ~(res.status_code < 400) \/ res.status_code >= 400
    THEN "LinkHeadRequestError"
    ELSE ""

\* link_checker up to the HEAD request: tidy_url may raise LinkInvalidError
LinkChecker(url) ==
    LET tidy == tidy_url(url)
    IN  /\ link.pc \in {"idle", "done"}
        /\ link.calls < MaxChecks
        /\ link' = [NoLink EXCEPT !.pc = IF tidy.ok THEN "head" ELSE "done",
                                  !.url = url,
                                  !.exc = IF tidy.ok THEN "" ELSE "LinkInvalidError",
                                  !.calls = link.calls + 1]
        /\ UNCHANGED <<ResourceRunState, pkg, db, bw, shown>>

\* link_checker from the HEAD request to its end
LinkCheckerHead(answer) ==
    LET res == requests_head(tidy_url(link.url).url, answer)
        raised == head_outcome(res)
    IN  /\ link.pc = "head"
        /\ link' = [link EXCEPT !.pc = "done",
                                !.heads = @ + 1,
                                !.res = res,
                                !.exc = raised,
                                !.returned = IF raised = "" THEN "headers" ELSE None]
        /\ UNCHANGED <<ResourceRunState, pkg, db, bw, shown>>

NextLink ==
    \/ \E url \in LinkUrls : LinkChecker(url)
    \/ \E answer \in HeadAnswers : LinkCheckerHead(answer)

SpecLink == Init /\ [][NextLink]_vars

\* ------------------------------------------------------------------------
\* Properties
\* ------------------------------------------------------------------------
\* The record of the resource of the latest run, once the run has updated it
Updated == pc = "done" /\ saves = 1

Row == archival[resource.id]

\* C1: every run of _update_resource that returns has made exactly one ledger
\* update (save_archival), and the record then holds one of the eight
\* statuses.  Refuted: a run whose download raises NotChanged returns None
\* without any ledger update.
C1_OneLedgerUpdatePerRun ==
    (pc = "done" /\ result # "raised") =>
        /\ saves = 1
        /\ resource.id \in DOMAIN archival
        /\ Row.status_id \in DOMAIN StatusById

\* C2: failure_count of every record equals the number of ledger updates with
\* is_broken other than False made for the resource since its latest update
\* with is_broken False (since the record was created if there is none): 1
\* after a first attempt that fails, one more for each further failing or
\* ambiguous attempt, 0 after a success.
C2_FailureCountCountsStreak ==
    \A id \in DOMAIN archival : archival[id].failure_count = failures_since_ok[id]

\* C2 happens: a second consecutive failing update has been recorded
C2_Witness ==
    /\ Updated
    /\ found # <<>>
    /\ found[1].failure_count = 1
    /\ Row.failure_count = 2

\* C3: the is_broken of every record is the value its status_id gives: False
\* below 10, True from 10 to 19, None (not sure) from 20.
C3_IsBrokenFollowsStatus ==
    \A id \in DOMAIN archival :
        archival[id].is_broken =
            IF archival[id].status_id < 10 THEN "False"
            ELSE IF archival[id].status_id < 20 THEN "True"
            ELSE "None"

\* C3 happens: an update has moved a record from a status that is not broken
\* to a broken one
C3_Witness ==
    /\ Updated
    /\ found # <<>>
    /\ found[1].is_broken = "False"
    /\ Row.status_id = 12
    /\ Row.is_broken = "True"

\* The seven details of the last success all hold a value
AllPopulated(row) ==
    /\ row.cache_filepath # None
    /\ row.cache_url # None
    /\ row.size > 0
    /\ row.mimetype \notin {None, ""}
    /\ row.hash # None
    /\ row.etag # None
    /\ row.last_modified # None

\* The five details that the response of the last success gave are the same
\* in both rows
SameResponseDetails(row, before) ==
    /\ row.size = before.size
    /\ row.mimetype = before.mimetype
    /\ row.hash = before.hash
    /\ row.etag = before.etag
    /\ row.last_modified = before.last_modified

SameCache(row, before) ==
    /\ row.cache_filepath = before.cache_filepath
    /\ row.cache_url = before.cache_url

C5_FailureClearsResponseDetails ==
    (Updated /\ Row.is_broken # "False" /\ found # <<>>
             /\ found[1].last_success # NoTime) =>
        /\ Row.size = 0 /\ Row.mimetype = None /\ Row.hash = None
        /\ Row.etag = None /\ Row.last_modified = None
        /\ SameCache(Row, found[1])

\* C5 (amended): a ledger update with is_broken other than False, on a record
\* that holds a previous success, leaves all seven details of that success
\* unchanged: size, mimetype, hash, etag and last_modified as well as
\* cache_filepath and cache_url.
C5_FailureKeepsDetails ==
    (Updated /\ Row.is_broken # "False" /\ found # <<>>
             /\ found[1].last_success # NoTime) =>
        /\ SameResponseDetails(Row, found[1])
        /\ SameCache(Row, found[1])

\* C5 happens: a failing update was made on a record whose last success had
\* stored a size, a hash and an etag
C5_Witness ==
    /\ Updated
    /\ Row.is_broken # "False"
    /\ found # <<>>
    /\ found[1].is_broken = "False"
    /\ found[1].size > 0
    /\ found[1].hash # None
    /\ found[1].etag # None

\* C6: a ledger update with is_broken False, after any number of failing
\* updates, leaves failure_count 0, first_failure empty and last_success at
\* the time of the update.
C6_SuccessResetsHistory ==
    (Updated /\ Row.is_broken = "False") =>
        /\ Row.failure_count = 0
        /\ Row.first_failure = NoTime
        /\ Row.last_success = clock

\* C6 happens: a success was recorded on a record with two failures in a row
C6_Witness ==
    /\ Updated
    /\ Row.is_broken = "False"
    /\ found # <<>>
    /\ found[1].failure_count = 2
    /\ found[1].first_failure # NoTime

\* C7: a failing or ambiguous ledger update that begins a streak (the first
\* update of the record, or one after a success) sets first_failure to its
\* time, one that continues a streak leaves first_failure unchanged, and
\* neither changes last_success.
C7_FirstFailureFixedInStreak ==
    (Updated /\ Row.is_broken # "False") =>
        LET continues == found # <<>> /\ found[1].is_broken # "False"
        IN  /\ Row.first_failure # NoTime
            /\ Row.first_failure =
                   IF continues THEN found[1].first_failure ELSE clock
            /\ Row.last_success =
                   IF found = <<>> THEN NoTime ELSE found[1].last_success

\* C7 happens: a second failure in a row was recorded after an earlier success
C7_Witness ==
    /\ Updated
    /\ Row.is_broken # "False"
    /\ Row.failure_count = 2
    /\ Row.first_failure < clock
    /\ Row.last_success # NoTime

\* C8: the status a run records follows from how its plain download ended:
\* LinkInvalidError gives 10 (URL invalid); ChooseNotToDownload gives 21;
\* DownloadException or DownloadError with every probe of api_request failed
\* gives 11 or 12; any other exception, outside debug mode, gives 22.  In each
\* of these cases the run returns None after that one ledger update, and the
\* status recorded is never 0 or 1.
C8_StatusFollowsOutcome ==
    (pc = "done" /\ result = "None" /\ e.exc \notin {"", "NotChanged"}) =>
        /\ saves = 1
        /\ resource.id \in DOMAIN archival
        /\ Row.status_id \notin {0, 1}
        /\ e.exc = "LinkInvalidError" => Row.status_id = 10
        /\ e.exc = "ChooseNotToDownload" => Row.status_id = 21
        /\ e.exc \in {"DownloadException", "DownloadError"} =>
               Row.status_id \in {11, 12}
        /\ (e.exc = "Exception" /\ ~DEBUG) => Row.status_id = 22

\* C8 happens: a server error was followed by three failed probes and the run
\* recorded 'Download error'
C8_Witness ==
    /\ pc = "done"
    /\ result = "None"
    /\ e.exc = "DownloadError"
    /\ Len(requests) = 1 + Len(ApiRequestFuncs)
    /\ saves = 1
    /\ Row.status_id = 12

\* The URL's scheme is none of http, https, ftp (in any case of letters)
SchemeNotAllowed(url) == Lower(url.scheme) \notin ALLOWED_SCHEMES

C10_NotChangedRecordsStatus1 ==
    (pc = "done" /\ e.exc = "NotChanged") =>
        /\ resource.id \in DOMAIN archival
        /\ Row.status_id = 1
        /\ Row.is_broken = "False"

\* The network requests the run issued for an API variant
ProbeRequests == { i \in 1..Len(requests) : requests[i].type # "GET" }

\* C11: api_request is called in a run only when the plain download raised
\* DownloadException or DownloadError; a run whose plain download raised
\* LinkInvalidError, ChooseNotToDownload or NotChanged makes the one call of
\* download and issues no request for an API variant.
C11_ProbesOnlyAfterDownloadFailure ==
    /\ (pc = "api" \/ Len(calls) > 1 \/ ProbeRequests # {}) =>
           e.exc \in {"DownloadException", "DownloadError"}
    /\ e.exc \in {"LinkInvalidError", "ChooseNotToDownload", "NotChanged"} =>
           /\ pc = "done"
           /\ Len(calls) = 1
           /\ ProbeRequests = {}

\* C11 happens: a run whose plain download chose not to download a response
\* that was too large has ended after that single request
C11_Witness ==
    /\ pc = "done"
    /\ e.exc = "ChooseNotToDownload"
    /\ e.msg = MSG_TOOLARGE
    /\ Len(calls) = 1
    /\ Len(requests) = 1

\* The plain request and the three API variants, in the order of the claim
FetchOrder == <<"GET", "WMS 1.3", "WMS 1.1.1", "WFS 2.0">>

\* C12: after a failed plain download the variants are tried in the order
\* WMS 1.3, WMS 1.1.1, WFS 2.0; a variant that fails, by an archiver error or
\* (outside debug mode) by any other exception, is followed by the next one
\* until all three were tried; the first variant that returns ends the loop,
\* its dict carries its own request_type, and no later variant is requested.
C12_VariantsInOrderUntilFirstSuccess ==
    /\ Len(calls) <= Len(FetchOrder)
    /\ \A i \in 1..Len(calls) :
           /\ calls[i].type = FetchOrder[i]
           /\ calls[i].ok => i = Len(calls) /\ calls[i].request_type = FetchOrder[i]
    /\ \A i \in ProbeRequests :
           \E j \in 2..Len(calls) : calls[j].type = requests[i].type
    /\ (pc = "done" /\ try_as_api(e.exc) /\ result # "raised") =>
           \/ calls[Len(calls)].ok /\ result = "json"
           \/ Len(calls) = Len(FetchOrder) /\ result = "None"

\* C12 happens: WMS 1.3 failed, WMS 1.1.1 returned and WFS 2.0 was not tried
C12_Witness ==
    /\ pc = "done"
    /\ result = "json"
    /\ Len(calls) = 3
    /\ ~calls[2].ok
    /\ calls[3].ok
    /\ calls[3].request_type = "WMS 1.1.1"
    /\ \A i \in 1..Len(requests) : requests[i].type # "WFS 2.0"

\* The blacklist row of the full path of the run's URL
FinestRow == blacklist[get_url_paths(tidy_url(resource.url).url)[Len(get_url_paths(tidy_url(resource.url).url))]]

\* C13: when the plain download raised DownloadException or DownloadError and
\* all three variants failed as well, api_request returns None and the one
\* ledger update of the run carries the status (Download error) and the
\* message of the exception of the plain download.
C13_OriginalFailureStands ==
    (pc = "done" /\ try_as_api(e.exc) /\ Len(calls) = Len(FetchOrder)
                 /\ ~calls[Len(calls)].ok /\ result # "raised") =>
        /\ result = "None"
        /\ saves = 1
        /\ resource.id \in DOMAIN archival
        /\ Row.status_id = 12
        /\ Row.reason = e.msg
        /\ e.msg \in {MSG_FTP, MSG_CONN, MSG_HTTP, MSG_TIMEOUT, MSG_REDIRECTS,
                      MSG_REQUEST, MSG_OTHER, MSG_STATUS, MSG_API, MSG_SHORT}

\* C13 happens: the plain request failed to connect, the three variants were
\* requested and failed otherwise (the blacklist counted one failure only),
\* and the record carries the connection error
C13_Witness ==
    /\ pc = "done"
    /\ result = "None"
    /\ e.msg = MSG_CONN
    /\ Len(calls) = Len(FetchOrder)
    /\ \A i \in 1..Len(calls) : ~calls[i].ok /\ calls[i].requests = 1
    /\ FinestRow.count = 1
    /\ Row.reason = MSG_CONN

\* Some prefix of the URL has a blacklist row whose count reached the threshold
Counted(bl, url) ==
    \E i \in 1..Len(get_url_paths(url)) :
        /\ get_url_paths(url)[i] \in DOMAIN bl
        /\ bl[get_url_paths(url)[i]].count >= BLOCK_THRESHOLD

\* The plain download is about to be called with a URL that passes tidy_url
\* and is not refused as hosted externally
ReachesBlacklistCheck ==
    /\ pc = "download"
    /\ tidy_url(resource.url).ok
    /\ ~(resource.url_type = "upload" /\ ~StartsWithSiteUrl(tidy_url(resource.url).url)
                                      /\ ~archive_cloud)

\* The call of download was refused by the blacklist: ChooseNotToDownload
\* 'Url is broken' and no request issued
RefusedByBlacklist ==
    /\ e'.exc = "ChooseNotToDownload"
    /\ e'.msg = MSG_BLACKLISTED
    /\ requests' = requests

\* C14: a call of download that reaches the blacklist check is refused before
\* any network request, with ChooseNotToDownload, exactly when at least one
\* prefix of the URL has a row with count >= BLOCK_THRESHOLD, whatever errno
\* that row stores.
C14_RefusedIffCounted ==
    [][ReachesBlacklistCheck =>
          (RefusedByBlacklist <=> Counted(blacklist, tidy_url(resource.url).url))]_vars

\* The prefixes of the URL of the run
RunPaths == { get_url_paths(tidy_url(resource.url).url)[i] :
                  i \in 1..Len(get_url_paths(tidy_url(resource.url).url)) }

\* The step is a call of download that returned a result
FetchSucceeds ==
    /\ Len(calls') = Len(calls) + 1
    /\ calls'[Len(calls')].ok

\* C15: after a call of download that returned a result, the blacklist has no
\* row for any prefix of the URL (whatever count the rows had), and the rows
\* of all other paths are as they were before the call.
C15_SuccessDeletesPrefixRows ==
    [][FetchSucceeds =>
          /\ DOMAIN blacklist' = DOMAIN blacklist \ RunPaths
          /\ \A p \in DOMAIN blacklist' : blacklist'[p] = blacklist[p]]_vars

\* C15 happens: http://h1/a was fetched after failures of http://h1/a/b had
\* counted more than once; the rows of http://h1 and http://h1/a are gone,
\* the row of http://h1/a/b is still there
C15_Witness ==
    /\ pc = "done"
    /\ result = "json"
    /\ resource.url = Url("http", "h1", <<"a">>, "", FALSE, FALSE)
    /\ Len(calls) = 1
    /\ calls[1].ok
    /\ DOMAIN blacklist = {<<"http", "h1", "a", "b">>}
    /\ blacklist[<<"http", "h1", "a", "b">>].count > 1

\* The step is a call of download, plain or variant, for a URL under
\* http://h1 that reaches the blacklist check
FetchAttemptUnderHost ==
    /\ pc \in {"download", "api"}
    /\ Len(calls') = Len(calls) + 1
    /\ tidy_url(resource.url).ok
    /\ Lower(resource.url.scheme) = "http" /\ resource.url.host = "h1"
    /\ ~(resource.url_type = "upload" /\ ~archive_cloud)

\* The call issued no request
Skipped == calls'[Len(calls')].requests = 0

\* C16: starting from an empty blacklist, while every fetch attempt so far
\* was a counted connection failure under http://h1, the next attempt under
\* that host is skipped without a request exactly when BLOCK_THRESHOLD
\* failures have been counted; a skipped plain download is recorded with
\* status 21 (Chose not to download).
C16_SixthAttemptIsSkipped ==
    [][(FetchAttemptUnderHost /\ streak # <<>>) =>
          /\ Skipped <=> streak[1] >= BLOCK_THRESHOLD
          /\ (Skipped /\ pc = "download") =>
                 /\ e'.exc = "ChooseNotToDownload"
                 /\ saves' = 1
                 /\ archival'[resource.id].status_id = 21]_vars

\* The plain download of the run was refused by the blacklist
BlockedRun ==
    /\ pc = "done"
    /\ Len(calls) = 1
    /\ e.exc = "ChooseNotToDownload"
    /\ e.msg = MSG_BLACKLISTED

\* C17: a run whose URL has a blocked prefix issues no request but still
\* updates the ledger once, with status 21 (Chose not to download), and sends
\* its one notification; and a URL that tidy_url rejects ends with status 10
\* (URL invalid) whatever the blacklist holds for its prefixes.
C17_GateBlocksOnlyTheRequest ==
    /\ BlockedRun =>
          /\ requests = <<>>
          /\ saves = 1
          /\ Row.status_id = 21
          /\ Row.reason = MSG_BLACKLISTED
          /\ notifications = <<Archived(resource, None)>>
    /\ (pc = "done" /\ Len(calls) = 1 /\ ~tidy_url(resource.url).ok) =>
          /\ e.exc = "LinkInvalidError"
          /\ requests = <<>>
          /\ saves = 1
          /\ Row.status_id = 10
          /\ notifications = <<Archived(resource, None)>>

\* C17 happens: the URL's full path has a row that reached the threshold, the
\* run issued no request, recorded status 21 and notified
C17_Witness ==
    /\ BlockedRun
    /\ Counted(blacklist, resource.url)
    /\ requests = <<>>
    /\ Row.status_id = 21
    /\ Len(notifications) = 1

\* The plain request of the run was answered by a response with a success
\* status that did not end the call as NotChanged
AnsweredOk ==
    /\ pc = "done"
    /\ Len(calls) = 1
    /\ calls[1].requests > 0
    /\ response[1].kind = "response"
    /\ response[1].ok
    /\ e.exc # "NotChanged"

\* The response declares a Content-Length >= the cap: the header's integer,
\* or the first of comma-joined values
DeclaresTooLarge(resp) ==
    /\ Len(resp.clen) > 0
    /\ resp.clen[1] = HUGE \/ resp.clen[1] >= MAX_CONTENT_LENGTH

\* C18: a response that declares a Content-Length >= the cap makes download
\* raise ChooseNotToDownload 'Content-length %s exceeds maximum allowed value
\* %s' without reading the body (a body that would raise is never met); a
\* header that yields no integer never raises it.
C18_DeclaredLengthIsRefused ==
    /\ (AnsweredOk /\ DeclaresTooLarge(response[1])) =>
          e.exc = "ChooseNotToDownload" /\ e.msg = MSG_TOOLARGE
    /\ (AnsweredOk /\ Len(response[1].clen) > 0 /\ response[1].clen[1] = -1) =>
          e.msg # MSG_TOOLARGE

\* The response to the plain request has a success status, no Content-Length
\* header and a body that reads without error and is no API error message
PlainBody(resp) ==
    /\ resp.kind = "response"
    /\ resp.ok
    /\ resp.clen = <<>>
    /\ resp.body_exc = ""
    /\ ~resp.api_error

\* C19: a response without Content-Length whose body is longer than the cap
\* makes download raise ChooseNotToDownload 'Content-length %s exceeds
\* maximum allowed value %s'; the run records status 21 (Chose not to
\* download), never status 0 (Archived successfully).
C19_LongBodyIsRefused ==
    (AnsweredOk /\ PlainBody(response[1])
                /\ response[1].body_len > MAX_CONTENT_LENGTH) =>
        /\ e.exc = "ChooseNotToDownload"
        /\ e.msg = MSG_TOOLARGE
        /\ Row.status_id = 21

\* The plain download of the run was answered by a response with a success
\* status and a body of 0 or 1 byte, and the run is past that call
AnsweredNearEmpty ==
    /\ pc \in {"api", "done"}
    /\ Len(calls) >= 1
    /\ calls[1].requests > 0
    /\ PlainBody(response[1])
    /\ response[1].body_len < 2
    /\ e.exc # "NotChanged"

\* C20: a response with a success status and a body of 0 or 1 byte makes the
\* plain download raise DownloadError 'Content-length after streaming was
\* %i'; unless a variant then returns a result, the run records status 11 or
\* 12, and the plain download never leads to status 0.
C20_NearEmptyBodyIsAnError ==
    AnsweredNearEmpty =>
        /\ e.exc = "DownloadError"
        /\ e.msg = MSG_SHORT
        /\ (pc = "done" /\ ~calls[Len(calls)].ok /\ result # "raised") =>
               /\ saves = 1
               /\ Row.status_id \in {11, 12}

\* The plain download of the run returned a result for a response whose body
\* read without error
FetchedBody ==
    /\ pc = "done"
    /\ Len(calls) = 1
    /\ calls[1].ok
    /\ result = "json"
    /\ response[1].kind = "response"

\* C21: after a download that returned a result, size in the record is the
\* number of bytes of the response body and hash is the digest of those
\* bytes, not the text 'None'; so two bodies of different length never give
\* the same size.
C21_SizeAndHashOfTheBody ==
    FetchedBody =>
        /\ Row.size = response[1].body_len
        /\ Row.hash # "None"

\* A run that downloaded (plain or variant) ended with status 0
ArchivedRun ==
    /\ pc = "done"
    /\ Len(calls) >= 1
    /\ saves = 1
    /\ Row.status_id = 0

\* C22: after a run that ends with status 0 the record's cache_filepath is
\* the file ARCHIVE_DIR/id[:2]/id/<file name> that archive_resource places
\* in the store, and cache_url is cache_url_root joined with the same
\* relative path.
C22_CachePathAndAddress ==
    (ArchivedRun /\ cache_url_root # None) =>
        /\ Row.cache_filepath = archive_resource(cache_url_root, resource).cache_filepath
        /\ Row.cache_url = archive_resource(cache_url_root, resource).cache_url

\* C23: with no cache_url_root configured, a run whose download (plain or
\* variant) returned a result records status 23 (System error during
\* archival), never status 0.
C23_NoAddressRootIsSystemError ==
    (pc = "done" /\ Len(calls) >= 1 /\ calls[Len(calls)].ok /\ cache_url_root = None) =>
        /\ saves = 1
        /\ Row.status_id = 23

\* C24: outside debug mode no run of update_resource ends with an exception
\* that reaches celery: whatever failed, the task returns.
C24_NothingPropagates ==
    (pc = "done" /\ ~DEBUG) => update_resource(result, DEBUG) # "raised"

\* C25: every run of update_resource that returns has sent exactly one
\* 'archived' notification, with the id of the resource and the queue and
\* without a package id, whether it ended in success or in failure.
C25_OneArchivedNotificationPerRun ==
    (pc = "done" /\ result # "raised") =>
        /\ Len(notifications) = 1
        /\ notifications[1].operation = "archived"
        /\ notifications[1].resource_id = resource.id
        /\ notifications[1].queue = QUEUE
        /\ "package_id" \notin DOMAIN notifications[1]

\* The places of the 'package-archived' notifications among those the package
\* run sent
PackageArchivedAt ==
    { i \in 1..Len(pkg.pipe) : pkg.pipe[i].operation = "package-archived" }

\* The place of a resource id in the package of the run
PlaceInPackage(id) ==
    CHOOSE k \in 1..Len(pkg.package.resources) : pkg.package.resources[k] = id

\* C26: a run of _update_package that returns has called _update_resource
\* for each resource of the package, in the package's order, and has sent
\* exactly one 'package-archived' notification (package id and queue, no
\* resource id), after every 'archived' notification of the run; while the
\* loop runs, and when it is ended by an exception, none has been sent.
C26_PackageNotifiedAfterResources ==
    /\ pkg.pc = "done" =>
          /\ pkg.idx = Len(pkg.package.resources)
          /\ PackageArchivedAt = {Len(pkg.pipe)}
          /\ pkg.pipe[Len(pkg.pipe)] =
                 [operation |-> "package-archived", package_id |-> pkg.package.id,
                  queue |-> QUEUE]
    /\ pkg.pc \in {"loop", "raised"} => PackageArchivedAt = {}
    /\ \A i \in 1..Len(pkg.pipe) \ PackageArchivedAt :
          /\ pkg.pipe[i].operation = "archived"
          /\ \E k \in 1..pkg.idx : pkg.package.resources[k] = pkg.pipe[i].resource_id
          /\ \A j \in 1..(i - 1) :
                 PlaceInPackage(pkg.pipe[j].resource_id)
                     < PlaceInPackage(pkg.pipe[i].resource_id)

\* C26 happens: the package of r1 and r2 was run, each resource notified, and
\* the package notification is the third and last
C26_Witness ==
    /\ pkg.pc = "done"
    /\ pkg.package.resources = <<"r1", "r2">>
    /\ Len(pkg.pipe) = 3
    /\ pkg.pipe[1].operation = "archived" /\ pkg.pipe[1].resource_id = "r1"
    /\ pkg.pipe[2].operation = "archived" /\ pkg.pipe[2].resource_id = "r2"
    /\ pkg.pipe[3].operation = "package-archived"

\* C27 (as stated; refuted): a run of _update_package that returns has sent
\* the 'package-archived' notification if and only if at least one of its
\* calls of _update_resource returned a result.
C27_NotifiedOnlyWhenArchived ==
    pkg.pc = "done" => (PackageArchivedAt # {} <=> pkg.num_archived > 0)

\* C27 (amended): a run of _update_package that returns has sent the
\* 'package-archived' notification once, whether or not any resource was
\* archived, and has updated the search index unless the qa plugin waits on
\* the pipe.
C27_NotifiedAfterEveryRun ==
    pkg.pc = "done" =>
        /\ Cardinality(PackageArchivedAt) = 1
        /\ pkg.num_archived <= pkg.idx
        /\ pkg.indexed <=> ~pkg.qa_waiting

\* C27 happens: a package with a resource was run, nothing was archived, and
\* the package notification was sent and the index updated all the same
C27_Witness ==
    /\ pkg.pc = "done"
    /\ Len(pkg.package.resources) >= 1
    /\ pkg.num_archived = 0
    /\ PackageArchivedAt # {}
    /\ pkg.indexed

\* The run is a second run in a row of one resource whose record said status
\* 0, and the server answered its plain request with a body again or with
\* the etag the record holds
RerunOfArchived ==
    /\ pc = "done"
    /\ repeat
    /\ result # "raised"
    /\ previous # <<>>
    /\ previous[1].status_id = 0
    /\ Len(calls) = 1
    /\ response[1].kind = "response"
    /\ calls[1].ok \/ e.exc = "NotChanged"

\* C28: when a resource whose record has status 0 is run again and the URL
\* answers as before, the record has status 0 after the run too, with the
\* cache_url and cache_filepath it had; the ledger still has the one row of
\* the resource id.
C28_RerunKeepsStatusAndAddress ==
    RerunOfArchived =>
        /\ Row.status_id = 0
        /\ Row.cache_url = previous[1].cache_url
        /\ Row.cache_filepath = previous[1].cache_filepath
        /\ get_for_resource(resource.id) = <<Row>>
        /\ saves <= 1

\* C28 happens: the resource was downloaded and archived twice in a row
C28_Witness ==
    /\ RerunOfArchived
    /\ calls[1].ok
    /\ saves = 1
    /\ Row.updated > previous[1].updated
    /\ Row.cache_url = previous[1].cache_url

\* The update of the run was given what the update before it of the same
\* record was given: status, reason and redirection are those the record
\* held, and for a success the download and archive results are too
SavedAgain ==
    /\ Updated
    /\ found # <<>>
    /\ found[1].status_id = Row.status_id
    /\ found[1].reason = Row.reason
    /\ found[1].url_redirected_to = Row.url_redirected_to
    /\ Row.is_broken = "False" =>
          SameResponseDetails(Row, found[1]) /\ SameCache(Row, found[1])

\* The fields of the latest attempt and of the last success are the same in
\* both rows
SameAttemptAndDetails(row, before) ==
    /\ row.status_id = before.status_id
    /\ row.is_broken = before.is_broken
    /\ row.reason = before.reason
    /\ row.url_redirected_to = before.url_redirected_to
    /\ SameResponseDetails(row, before)
    /\ SameCache(row, before)

\* C29 (as stated; refuted): save_archival applied a second time with the
\* same arguments leaves every field other than the timestamps as the first
\* application left it, for a success and for a failure alike.
C29_SaveTwiceIsSaveOnce ==
    SavedAgain =>
        /\ SameAttemptAndDetails(Row, found[1])
        /\ Row.failure_count = found[1].failure_count

\* C29 (amended): save_archival applied a second time with the same
\* arguments leaves every field other than the timestamps and failure_count
\* as the first application left it; failure_count stays 0 for a success and
\* is one more than the first application left for any other status.
C29_SaveTwiceCountsTwice ==
    SavedAgain =>
        /\ SameAttemptAndDetails(Row, found[1])
        /\ Row.failure_count =
               IF Row.is_broken = "False" THEN 0 ELSE found[1].failure_count + 1
        /\ Row.is_broken = "False" => found[1].failure_count = 0

\* C29 happens: the same failure was recorded twice in a row; the record
\* differs in failure_count and in updated only
C29_Witness ==
    /\ SavedAgain
    /\ Row.is_broken # "False"
    /\ SameAttemptAndDetails(Row, found[1])
    /\ Row.failure_count = found[1].failure_count + 1
    /\ Row.first_failure = found[1].first_failure
    /\ Row.updated > found[1].updated

\* C30: whatever the interleaving of the workers, two of them saving the
\* same resource at once included, the archival table holds at most one row
\* for each resource id.  Refuted: two workers that both query before either
\* commits both insert a row.
C30_OneRowPerResource ==
    \A i, j \in 1..Len(db.table) :
        db.table[i].resource_id = db.table[j].resource_id => i = j

\* The run updated the record after the server answered its plain request,
\* and the update records the plain download: its result, or the
\* DownloadError or ChooseNotToDownload it raised once the response was there
SavedAfterResponse ==
    /\ Updated
    /\ Len(calls) >= 1
    /\ response[1].kind = "response"
    /\ \/ Len(calls) = 1 /\ calls[1].ok
       \/ /\ e.exc \in {"DownloadError", "ChooseNotToDownload"}
          /\ e.msg \in {MSG_STATUS, MSG_TOOLARGE, MSG_API}
          /\ Row.status_id \in {12, 21}

\* C31: after every ledger update of a run whose plain request was answered,
\* url_redirected_to in the record is the final URL of the response when the
\* request was redirected and empty otherwise, for a download that returned
\* and for one that failed on the status of the response after a redirect.
\* Refuted: the error branch never passes the URL on.
C31_RedirectIsRecorded ==
    SavedAfterResponse =>
        Row.url_redirected_to =
            IF response[1].redirected THEN REDIRECT_TARGET ELSE None

\* The classes derived from LinkCheckerError
LinkCheckerErrors ==
    {"LinkInvalidError", "LinkHeadRequestError", "LinkHeadMethodNotSupported"}

\* The URL is empty, has a scheme that is not allowed, has no host or cannot
\* be parsed
InvalidLink(url) ==
    \/ url.malformed
    \/ SchemeNotAllowed(url)
    \/ url.host = ""

\* C32: a call of link_checker for an invalid URL raises LinkInvalidError
\* without sending a HEAD request; for a valid URL it sends one, raises a
\* LinkCheckerError when requests.head raised or the response has status 400
\* or more (LinkHeadMethodNotSupported for 405), and in every other case
\* returns the headers and raises nothing.
C32_LinkCheckerOutcome ==
    link.pc = "done" =>
        IF InvalidLink(link.url)
        THEN link.exc = "LinkInvalidError" /\ link.heads = 0 /\ link.returned = None
        ELSE /\ link.heads = 1
             /\ IF link.res.kind # "response" \/ link.res.status_code >= 400
                THEN /\ link.exc \in LinkCheckerErrors \ {"LinkInvalidError"}
                     /\ link.returned = None
                     /\ (link.res.kind = "response" /\ link.res.status_code = 405)
                            <=> link.exc = "LinkHeadMethodNotSupported"
                ELSE link.exc = "" /\ link.returned = "headers"

\* C32 happens: the HEAD request for a valid URL was answered 405 and
\* link_checker raised LinkHeadMethodNotSupported
C32_Witness ==
    /\ link.pc = "done"
    /\ ~InvalidLink(link.url)
    /\ link.heads = 1
    /\ link.res = [kind |-> "response", status_code |-> 405]
    /\ link.exc = "LinkHeadMethodNotSupported"

\* The plain request of the run was issued and answered with a response
PlainAnswered ==
    /\ Len(calls) >= 1
    /\ calls[1].requests >= 1
    /\ response[1].kind = "response"

\* The response carries an etag header and the run found a previous archival
\* with that etag
EtagMatches ==
    /\ previous # <<>>
    /\ response[1].etag # None
    /\ previous[1].etag = response[1].etag

\* C33: the plain download of a run raises NotChanged exactly when its
\* request was answered with an etag header equal to the etag of the previous
\* archival, whatever the status of the response and whatever reading the
\* body would have given: the run then ends at once, with no further call,
\* no ledger update and no result.  Without a previous archival or without
\* an etag header NotChanged is not raised.
C33_NotChangedIffEtagMatches ==
    Len(calls) >= 1 =>
        /\ (PlainAnswered /\ EtagMatches) <=> e.exc = "NotChanged"
        /\ e.exc = "NotChanged" =>
              /\ pc = "done"
              /\ Len(calls) = 1
              /\ ~calls[1].ok
              /\ saves = 0
              /\ result = "None"

\* C33 happens: the response had an error status and the etag of the
\* previous archival, and the download raised NotChanged
C33_Witness ==
    /\ PlainAnswered
    /\ EtagMatches
    /\ ~response[1].ok
    /\ e.exc = "NotChanged"
    /\ pc = "done"

\* The step is the plain download of a run whose request was issued and
\* ended in a ConnectionError or Timeout
PlainRequestFailed ==
    /\ Len(calls) = 0
    /\ Len(calls') = 1
    /\ calls'[1].requests >= 1
    /\ response'[1].kind \in {"ConnectionError", "Timeout"}

\* The blacklist entries that the step created or changed
Touched ==
    { p \in DOMAIN blacklist' : p \notin DOMAIN blacklist \/ blacklist'[p] # blacklist[p] }

\* The prefixes of the URL of the run, finest first
PathsFinestFirst == Reverse(get_url_paths(tidy_url(resource'.url).url))

\* The place in PathsFinestFirst of the closest prefix that has an entry, 0
\* when no prefix has one
ClosestExisting ==
    LET existing == { i \in 1..Len(PathsFinestFirst) : PathsFinestFirst[i] \in DOMAIN blacklist }
    IN  IF existing = {} THEN 0 ELSE CHOOSE i \in existing : \A j \in existing : i <= j

\* C34: a step that records one failure for a URL changes exactly one
\* blacklist entry: the closest prefix that has an entry gets count + 1, or,
\* when no prefix has an entry, the finest prefix gets a new entry with count
\* 1; no entry is deleted.  Refuted: every prefix finer than the closest
\* existing one gets a new entry.
C34_OneEntryPerFailure ==
    [][(PlainRequestFailed /\ blacklist' # blacklist) =>
          /\ DOMAIN blacklist \subseteq DOMAIN blacklist'
          /\ Cardinality(Touched) = 1
          /\ IF ClosestExisting = 0
             THEN /\ Touched = {PathsFinestFirst[1]}
                  /\ blacklist'[PathsFinestFirst[1]].count = 1
             ELSE /\ Touched = {PathsFinestFirst[ClosestExisting]}
                  /\ blacklist'[PathsFinestFirst[ClosestExisting]].count
                         = blacklist[PathsFinestFirst[ClosestExisting]].count + 1]_vars

\* A connection failure whose error code is in ERRNO_BLOCK, or a timeout
Qualifying(resp) ==
    \/ resp.kind = "ConnectionError" /\ resp.has_reason /\ resp.errno \in ERRNO_BLOCK
    \/ resp.kind = "Timeout"

\* The step is the plain download of a run whose request was issued and
\* failed in a way that does not qualify
PlainRequestFailedOtherwise ==
    /\ Len(calls) = 0
    /\ Len(calls') = 1
    /\ calls'[1].requests >= 1
    /\ ~calls'[1].ok
    /\ response'[1].kind # "response"
    /\ ~Qualifying(response'[1])

\* C35: a request that fails in any way other than a connection failure with
\* an error code of ERRNO_BLOCK (or a timeout) leaves every blacklist entry
\* as it was.  Refuted: every ConnectionError is counted, whatever its code.
C35_OnlyQualifyingFailuresCount ==
    [][PlainRequestFailedOtherwise => blacklist' = blacklist]_vars

\* The network requests the run issued for the plain URL or a variant
RequestsFor(type) == { i \in 1..Len(requests) : requests[i].type = type }

\* C36 (as stated; refuted): in one run the plain URL and each of the three
\* variants are requested at most once, so the run issues at most four
\* requests.
C36_NoRequestIsRepeated ==
    /\ \A i \in 1..Len(FetchOrder) : Cardinality(RequestsFor(FetchOrder[i])) <= 1
    /\ Len(requests) <= Len(FetchOrder)

\* C36 (amended): in one run the plain URL and each of the three variants
\* are requested once, and once more with SSLv3 directly afterwards only when
\* the first request failed with the SSL23_GET_SERVER_HELLO connection
\* error; no other failed request is repeated, so the run issues at most
\* eight requests.
C36_OnlySslRetry ==
    /\ \A i \in 1..Len(requests) : requests[i].type \in {FetchOrder[k] : k \in 1..Len(FetchOrder)}
    /\ \A i \in 1..Len(FetchOrder) :
          /\ Cardinality({ j \in RequestsFor(FetchOrder[i]) : ~requests[j].sslv3 }) <= 1
          /\ Cardinality({ j \in RequestsFor(FetchOrder[i]) : requests[j].sslv3 }) <= 1
    /\ \A j \in 1..Len(requests) :
          requests[j].sslv3 =>
              /\ j > 1
              /\ requests[j - 1].type = requests[j].type
              /\ ~requests[j - 1].sslv3
    /\ Len(requests) <= 2 * Len(FetchOrder)
    /\ (Len(calls) >= 1 /\ ~response[1].ssl23) => Cardinality(RequestsFor("GET")) <= 1

\* C36 happens: the plain request failed with the SSL23_GET_SERVER_HELLO
\* error and was sent again with SSLv3; the run went on to the variants
C36_Witness ==
    /\ pc = "done"
    /\ Len(requests) = 5
    /\ requests[1] = [type |-> "GET", sslv3 |-> FALSE]
    /\ requests[2] = [type |-> "GET", sslv3 |-> TRUE]
    /\ response[1].ssl23

\* C37: once no worker is inside add_url_blacklist, every prefix for which
\* n > 0 failures were recorded, under whatever interleaving of the workers,
\* has one entry and its count is n.  Refuted: two workers that both SELECT
\* before either INSERTs leave two rows, or one row with count 1.
C37_NoFailureIsLost ==
    (\A w \in Workers : bw.worker[w].pc = "idle") =>
        \A url \in FailingUrls :
            bw.failed[url] > 0 =>
                /\ Cardinality(RowsOf(bw.table, get_url_paths(url)[1])) = 1
                /\ \A i \in RowsOf(bw.table, get_url_paths(url)[1]) :
                       bw.table[i].count = bw.failed[url]

\* C38: for a non-empty list of archivals the aggregate carries the highest
\* status id among them, the reason of an archival that has that status id,
\* the status text of that id and the is_broken value of that id; for an empty
\* list all four fields are None.
C38_AggregateIsMostSevere ==
    shown.pc # "read" =>
        LET ids == { shown.archivals[i].status_id : i \in DOMAIN shown.archivals }
            a   == shown.aggregated
        IN  IF shown.archivals = <<>>
            THEN /\ a.status_id = NoStatusId
                 /\ a.status = None
                 /\ a.reason = None
                 /\ a.is_broken = None
            ELSE /\ a.status_id \in ids
                 /\ \A i \in ids : i <= a.status_id
                 /\ \E i \in DOMAIN shown.archivals :
                        /\ shown.archivals[i].status_id = a.status_id
                        /\ shown.archivals[i].reason = a.reason
                 /\ a.status = StatusById[a.status_id]
                 /\ a.is_broken = CASE a.status_id \in {0, 1} -> "False"
                                    [] a.status_id \in {10, 11, 12} -> "True"
                                    [] OTHER -> "None"

\* C38 witness: two archivals with different status ids and different reasons
\* have been aggregated, the less severe one read last
C38_Witness ==
    /\ shown.pc # "read"
    /\ Len(shown.archivals) = 2
    /\ shown.archivals[1].status_id > shown.archivals[2].status_id
    /\ shown.archivals[1].reason # shown.archivals[2].reason
    /\ shown.aggregated.reason = shown.archivals[1].reason

\* C39: the fetch of a valid ftp:// URL succeeds when the FTP server accepts
\* the connection and the login and lists the file: the plain download of a
\* run for such a URL, not refused by the blacklist, raises nothing when the
\* server answers well.
C39_ReachableFtpIsFetched ==
    ( /\ Len(calls) >= 1
      /\ tidy_url(resource.url).url.scheme = "ftp"
      /\ response[1].kind = "response"
      /\ response[1].ok
      /\ e.msg # MSG_BLACKLISTED ) =>
        e.exc = ""

\* The row of prefix p blocks: its count reached the threshold and it stores
\* an error code
Blocking(p) ==
    /\ p \in DOMAIN blacklist
    /\ blacklist[p].count >= BLOCK_THRESHOLD
    /\ blacklist[p].errno # NoErrno

\* C40: blocking is absorbing: once the row of a prefix has count >= 5 and an
\* error code, no plain download and no variant of any run deletes the row or
\* lowers its count.
C40_BlockingIsAbsorbing ==
    [][\A p \in DOMAIN blacklist :
          Blocking(p) => /\ p \in DOMAIN blacklist'
                         /\ blacklist'[p].count >= blacklist[p].count]_vars

====
